---- MODULE Spec2Model ----
(***************************************************************************)
(* Model of the security scan pipeline of fileSystemAgent:                 *)
(*   src/security/pipeline.py        ScanPipeline.run_pipeline             *)
(*   src/security/scanner_base.py    ScannerBase.run (template method)     *)
(*   src/security/scanners/clamav.py ClamAVScanner.run, _update_signatures *)
(*   src/security/pipeline.py        get_recent_results, get_all_findings  *)
(*   src/security/tool_manager.py    ToolManager                           *)
(*   src/security/security_monitor.py get_findings                         *)
(*   src/security/result_parser.py   ResultParser                          *)
(*   src/security/scanners/hayabusa.py, hollows_hunter.py  parse_output    *)
(*                                                                         *)
(* One run_pipeline invocation is followed from its first statement to its *)
(* return (or to the exception that leaves it).  The external world - the  *)
(* tool resolution, the filesystem, the child processes, the scanners'     *)
(* parse_output - is a nondeterministic choice at the statement that       *)
(* consults it.                                                            *)
(*                                                                         *)
(* Spec and SpecLong follow one run_pipeline call; SpecHistory follows     *)
(* several calls and the history queries, SpecFeed one call and the        *)
(* findings feed, SpecDirs the output directories of several runs of one   *)
(* scanner, SpecTools the ToolManager, SpecBoot its bootstrap_all over the *)
(* whole registry, SpecQuery the monitor's findings query over a history,  *)
(* SpecSeverity, SpecTimeline and SpecReport the output parsers on the     *)
(* inputs handed to them.                                                  *)
(*                                                                         *)
(* Python values: Optional[T] is a sequence of length at most one (None is *)
(* <<>>), a str is a sequence of tokens, a list is a sequence.             *)
(***************************************************************************)
EXTENDS Integers, Sequences, FiniteSets, TLC

VARIABLES
    pipeline_config,  \* the PipelineConfig argument of run_pipeline
    ppc,              \* position of run_pipeline
    step,             \* loop variable i of run_pipeline (1-based)
    presult,          \* local variable result of run_pipeline (PipelineResult)
    _results,         \* ScanPipeline._results, the history
    rpc,              \* position of the scanner's run
    result,           \* local variable result of ScannerBase.run (Optional)
    cmd,              \* local variable cmd of ScannerBase.run (Optional)
    children,         \* child processes spawned by the current run call
    now,              \* the wall clock read by datetime.now()
    available,        \* what is_available() returned in the current run call
    wait_outcome,     \* how the wait for the scanner's child ended in this call
    parse_call,       \* how parse_output ended in the current run call
    output_dirs,      \* the directories that exist under config.output_dir
    calls,            \* number of run_pipeline calls made on this ScanPipeline
    returned,         \* value handed back by the last history query (Optional)
    clock,            \* the wall clock in ticks, several ticks to the second
    scans,            \* the scanner runs that share one tool and output_dir
    disk,             \* the files under <output_dir>/<tool_name>/
    config,           \* ToolManager.config: the overrides of the tool's entry
    _tools,           \* ToolManager._tools, the registry of ToolInfo
    files,            \* the places where the tool's executable is a file now
    outcome,          \* how the last ToolManager call ended (Optional)
    download,         \* position and locals of download_tool
    level,            \* the level string handed to a severity mapping
    text,             \* the CSV timeline handed to the Hayabusa parser
    report_dir,       \* the report directory handed to the HollowsHunter parser
    parsed,           \* how the last parser call ended (Optional)
    boot              \* position and locals of bootstrap_all, and the tools' disk

\* the variables of one run_pipeline call and of the scanner run inside it
scan_vars == <<pipeline_config, ppc, step, presult, _results, rpc, result, cmd,
               children, now, available, wait_outcome, parse_call,
               output_dirs>>

\* the variables of the history queries
hist_vars == <<calls, returned>>

\* what a step of run_pipeline or of a scanner's run leaves alone
\* the variables of the output directories
dir_vars == <<clock, scans, disk>>

\* the variables of the ToolManager
tool_vars == <<config, _tools, files, outcome, download>>

\* the variables of the output parsers
parse_vars == <<level, text, report_dir, parsed>>

\* the variables of bootstrap_all
boot_vars == <<boot>>

aux_vars == <<hist_vars, dir_vars, tool_vars, parse_vars, boot_vars>>

vars == <<scan_vars, aux_vars>>

----------------------------------------------------------------------------
(* Bounds of the model. *)

\* longest list of steps of a PipelineConfig
MaxSteps == 2


\* longest list of steps of a PipelineConfig of the long pipelines
MaxLongSteps == 3

\* most run_pipeline calls made on one ScanPipeline
MaxCalls == 2

\* number of scanner runs of one tool that write under one output_dir
MaxRuns == 2

\* last tick of the wall clock
MaxClock == 3

\* readings of the wall clock that fall into one second
TicksPerSecond == 2

----------------------------------------------------------------------------
(* Values. *)

None == <<>>
Some(x) == <<x>>

\* models.py ScanStatus
PENDING == "pending"
RUNNING == "running"
COMPLETED == "completed"
FAILED == "failed"
TIMED_OUT == "timed_out"
SKIPPED == "skipped"

ScanStatus == {PENDING, RUNNING, COMPLETED, FAILED, TIMED_OUT, SKIPPED}

\* pipeline.py _register_scanners: the keys of ScanPipeline._scanners
_scanners == {"clamav", "hollows_hunter", "yara_x", "hayabusa", "chainsaw",
              "autorunsc", "sigcheck", "listdlls"}

\* tool names the steps of the model are drawn from: the two scanners that
\* override _is_success_return_code, one that does not, and a name with no
\* registered scanner
StepTools == {"clamav", "chainsaw", "yara_x", "nonexistent_tool"}

\* models.py ScanConfig.timeout, the default (seconds)
DefaultTimeout == 600

\* seconds a child process that exits within the timeout is observed to take
ExitElapsed == {1}

\* ClamAVScanner.update_before_scan (config default True)
update_before_scan == TRUE

\* exit codes a child process is observed to end with
ReturnCodes == {0, 1, 2}

\* what a child process is observed to write before it exits
ChildOutputs == {[stdout |-> <<"out">>, stderr |-> <<>>],
                 [stdout |-> <<>>, stderr |-> <<"err">>]}

\* what a successful parse_output returns: a list of findings (severities)
ParsedFindings == {<<>>, <<"high">>}

\* models.py ScanConfig: the fields run and run_pipeline read
ScanConfigs == [tool_name : StepTools, dry_run : BOOLEAN, timeout : {DefaultTimeout}]

SeqsUpTo(S, n) == UNION {[1..k -> S] : k \in 0..n}

\* models.py PipelineConfig
PipelineConfigs == [steps : SeqsUpTo(ScanConfigs, MaxSteps), stop_on_failure : BOOLEAN]

\* the long pipelines: real (not dry-run) steps of the scanner with the
\* signature update, and steps without a registered scanner
LongScanConfigs ==
    [tool_name : {"clamav", "nonexistent_tool"}, dry_run : {FALSE},
     timeout : {DefaultTimeout}]

LongPipelineConfigs ==
    [steps : SeqsUpTo(LongScanConfigs, MaxLongSteps), stop_on_failure : BOOLEAN]

\* pipeline.py:142: the default limit of get_recent_results
DefaultRecentLimit == 10

\* pipeline.py:146: the default limit of get_all_findings
DefaultFindingsLimit == 100

\* the limits the callers ask for
RecentLimits == {0, 1, DefaultRecentLimit}
FindingsLimits == {1, DefaultFindingsLimit}

\* the steps of the pipelines of the history: a real run of a registered
\* scanner, or a tool without a registered scanner (test_pipeline.py:180-204)
HistScanConfigs ==
    [tool_name : {"yara_x", "nonexistent_tool"}, dry_run : {FALSE},
     timeout : {DefaultTimeout}]

\* the one-step pipelines of test_results_stored
HistPipelineConfigs ==
    [steps : {<<a>> : a \in HistScanConfigs}, stop_on_failure : BOOLEAN]

\* the two-step pipelines of test_get_all_findings
FeedPipelineConfigs ==
    [steps : {<<a, b>> : a \in HistScanConfigs, b \in HistScanConfigs},
     stop_on_failure : BOOLEAN]

\* models.py ScanResult(tool_name=..., config=...) with the field defaults
NewScanResult(cfg) ==
    [tool_name |-> cfg.tool_name, config |-> cfg, status |-> PENDING,
     started_at |-> None, completed_at |-> None, duration_seconds |-> None,
     return_code |-> None, stdout |-> <<>>, stderr |-> <<>>,
     findings |-> <<>>, error_message |-> None]

\* models.py ScanResult.findings_count
findings_count(r) == Len(r.findings)

\* str.join(" ", parts)
RECURSIVE Join(_)
Join(parts) ==
    IF Len(parts) = 0 THEN <<>>
    ELSE IF Len(parts) = 1 THEN <<parts[1]>>
    ELSE <<parts[1], " ">> \o Join(Tail(parts))

\* tool_manager.py DEFAULT_TOOLS: exe_name of a tool
exe_name(tool) ==
    CASE tool = "clamav" -> "clamscan.exe"
      [] tool = "chainsaw" -> "chainsaw.exe"
      [] tool = "yara_x" -> "yr.exe"
      [] tool = "hollows_hunter" -> "hollows_hunter.exe"
      [] tool = "hayabusa" -> "hayabusa.exe"
      [] tool = "autorunsc" -> "autorunsc64.exe"
      [] tool = "sigcheck" -> "sigcheck64.exe"
      [] tool = "listdlls" -> "listdlls64.exe"
      [] OTHER -> "freshclam.exe"

\* build_command of the scanners, for the default ScanTarget (recursive path
\* target) and no extra_args
build_command(tool) ==
    CASE tool = "clamav" ->
            <<exe_name(tool), "-r", "--log=clamscan.log", "target_value">>
      [] tool = "chainsaw" ->
            <<exe_name(tool), "hunt", "target_value", "--json", "-q">>
      [] tool = "yara_x" ->
            <<exe_name(tool), "scan", "rules_dir", "target_value",
              "--output-format", "json", "-r">>
      [] OTHER -> <<exe_name(tool), "target_value">>

\* mutant: no scanner overrides the default
Mut_NoSuccessCodes(tool, return_code) == FALSE

\* ScannerBase._is_success_return_code and its overrides
_is_success_return_code(tool, return_code) ==
    CASE tool = "clamav" -> return_code = 1
      [] tool = "chainsaw" -> return_code = 1
      [] OTHER -> FALSE

\* (completed_at - started_at).total_seconds(), guarded by `if result.started_at`
Duration(r, completed) ==
    IF r.started_at # None THEN Some(completed - r.started_at[1]) ELSE None

----------------------------------------------------------------------------
(* State after construction, with run_pipeline about to be called. *)

\* the first run_pipeline call is about to be made, no query was served
HistInit ==
    /\ calls = 1
    /\ returned = <<>>

\* the scanner runs that share an output_dir
Runs == 1..MaxRuns

\* no run has begun, nothing was written
DirInit ==
    /\ clock = 0
    /\ scans = [r \in Runs |-> [pc |-> "idle", output_dir |-> <<>>,
                                output_files |-> {}]]
    /\ disk = {}

\* models.py:29-45 ToolInfo and tool_manager.py:16-50 DEFAULT_TOOLS: the
\* entries of the registry the model follows: a release archive, a release
\* executable, an installer
DEFAULT_TOOLS ==
    {[name |-> "hollows_hunter", exe_name |-> <<"hollows_hunter.exe">>,
      install_method |-> "github_release",
      github_repo |-> <<"hasherezade/hollows_hunter">>,
      github_asset_pattern |-> <<"hollows_hunter64", ".zip">>],
     [name |-> "pe_sieve", exe_name |-> <<"pe-sieve64.exe">>,
      install_method |-> "github_release",
      github_repo |-> <<"hasherezade/pe-sieve">>,
      github_asset_pattern |-> <<"pe-sieve64", ".exe">>],
     [name |-> "clamav", exe_name |-> <<"clamscan.exe">>,
      install_method |-> "msi",
      github_repo |-> <<>>,
      github_asset_pattern |-> <<>>]}

\* tool_manager.py:141-188: the places check_tool looks at, in its order:
\* the path of the configuration, tools_dir/<name>/<exe_name>, a match of
\* tools_dir/<name>/**/<exe_name>, tools_dir/<exe_name>, shutil.which
Locations == {"config", "direct", "nested", "flat", "PATH"}

\* tool_manager.py:377-384: hexdigest() of the file at place l, in lower
\* case; files at different places have different contents
_sha256(l) == [digest |-> l, upper |-> FALSE]

\* str.lower() of a hexadecimal hash
lower(h) == [h EXCEPT !.upper = FALSE]

\* the hashes a configuration names: of the executable under
\* tools_dir/<name>/, written in lower or in upper case
ExpectedHashes == {[digest |-> "direct", upper |-> u] : u \in BOOLEAN}

\* the overrides security.tools.<name> of a configuration
ToolOverrides ==
    [path : {<<>>, <<"config">>},
     expected_hash : {<<>>} \cup {<<h>> : h \in ExpectedHashes}]

\* tool_manager.py:127-135: {**tool_def, **overrides} as ToolInfo
ToolInfo(tool_def, overrides) ==
    [name |-> tool_def.name, exe_name |-> tool_def.exe_name,
     install_method |-> tool_def.install_method,
     github_repo |-> tool_def.github_repo,
     github_asset_pattern |-> tool_def.github_asset_pattern,
     path |-> overrides.path, expected_hash |-> overrides.expected_hash,
     installed |-> FALSE]

\* tool_manager.py:127-135: the registry after construction
_register_default_tools(tool_def, overrides) ==
    [n \in {tool_def.name} |-> ToolInfo(tool_def, overrides)]

\* no download_tool call is in progress
NoDownload == [pc |-> "idle", tool_name |-> "", ended |-> ""]

\* a ToolManager built without overrides, on a disk without the tool
ToolInit ==
    /\ config = [path |-> <<>>, expected_hash |-> <<>>]
    /\ \E d \in DEFAULT_TOOLS :
          /\ d.name = "clamav"
          /\ _tools = _register_default_tools(d, config)
    /\ files = {}
    /\ outcome = <<>>
    /\ download = NoDownload

\* a CSV text: the header line and the rows below it
NoText == [header |-> <<>>, rows |-> <<>>]

\* a report directory: the top-level scan_report.json (Optional) and the
\* per-process reports of the numeric subdirectories
NoReportDir == [top |-> <<>>, subdirs |-> <<>>]

\* no parser was called
ParseInit ==
    /\ level = <<>>
    /\ text = NoText
    /\ report_dir = NoReportDir
    /\ parsed = <<>>

\* no bootstrap_all call was made
NoBoot ==
    [pc |-> "idle", skip_existing |-> TRUE, next |-> 1, results |-> <<>>,
     downloads |-> <<>>, raised |-> <<>>, tool_files |-> <<>>]

BootInit == boot = NoBoot

AuxInit ==
    /\ HistInit
    /\ DirInit
    /\ ToolInit
    /\ ParseInit
    /\ BootInit

Init ==
    /\ pipeline_config \in PipelineConfigs
    /\ ppc = "call"
    /\ step = 1
    /\ presult = None
    /\ _results = <<>>
    /\ rpc = "idle"
    /\ result = None
    /\ cmd = None
    /\ children = <<>>
    /\ now = 0
    /\ available = None
    /\ wait_outcome = "none"
    /\ parse_call = "none"
    /\ output_dirs = {}
    /\ AuxInit

\* the same, for the long pipelines
InitLong ==
    /\ pipeline_config \in LongPipelineConfigs
    /\ ppc = "call"
    /\ step = 1
    /\ presult = None
    /\ _results = <<>>
    /\ rpc = "idle"
    /\ result = None
    /\ cmd = None
    /\ children = <<>>
    /\ now = 0
    /\ available = None
    /\ wait_outcome = "none"
    /\ parse_call = "none"
    /\ output_dirs = {}
    /\ AuxInit

----------------------------------------------------------------------------
(* Helpers on the state. *)

steps == pipeline_config.steps

\* mutant: every iteration works on the first step
Mut_FirstStepConfig == steps[1]

\* pipeline.py:88: the loop variable step_config
step_config == steps[step]

\* models.py PipelineResult(pipeline_name=..., status=RUNNING, started_at=now)
NewPipelineResult ==
    [status |-> RUNNING, started_at |-> Some(now), completed_at |-> None,
     scan_results |-> <<>>]

\* a child process as the run call sees it
Child(prog) == [prog |-> prog, state |-> "running"]

\* the state of the last spawned child becomes s
SetLastChild(s) == [children EXCEPT ![Len(children)].state = s]

run_locals == <<result, cmd, children, available, wait_outcome, parse_call>>
pipeline_locals == <<pipeline_config, ppc, step, presult, _results>>

\* mutant: the new PipelineResult is put in front of the history
Mut_StoreNewestFirst(r) == <<r>> \o _results

\* pipeline.py:127,139: self._results.append(result)
StoreResult(r) == Append(_results, r)

\* the run call hands r back to run_pipeline
Return(r) ==
    /\ result' = Some(r)
    /\ rpc' = "returned"

----------------------------------------------------------------------------
(* ScanPipeline.run_pipeline, pipeline.py:71-140 *)

\* pipeline.py:77-86: the PipelineResult is created with status RUNNING
CallRunPipeline ==
    /\ ppc = "call"
    /\ presult' = Some(NewPipelineResult)
    /\ step' = 1
    /\ ppc' = "loop"
    /\ UNCHANGED <<pipeline_config, _results, rpc, now>>
    /\ UNCHANGED run_locals
    /\ UNCHANGED aux_vars
    /\ UNCHANGED output_dirs

\* mutant: a step without a scanner is recorded as failed
Mut_SkipResultFailed(cfg) ==
    [NewScanResult(cfg) EXCEPT
        !.status = FAILED,
        !.error_message = Some(<<"No scanner registered for", cfg.tool_name>>)]

\* pipeline.py:94-99: the result recorded for a step without a scanner
skip_result(cfg) ==
    [NewScanResult(cfg) EXCEPT
        !.status = SKIPPED,
        !.error_message = Some(<<"No scanner registered for", cfg.tool_name>>)]

\* pipeline.py:88-101: no scanner is registered for the step's tool_name
StepUnregistered ==
    /\ ppc = "loop"
    /\ step <= Len(steps)
    /\ step_config.tool_name \notin _scanners
    /\ presult' = Some([presult[1] EXCEPT
                    !.scan_results = Append(@, skip_result(step_config))])
    /\ step' = step + 1
    /\ UNCHANGED <<pipeline_config, ppc, _results, rpc, now>>
    /\ UNCHANGED run_locals
    /\ UNCHANGED aux_vars
    /\ UNCHANGED output_dirs

\* pipeline.py:88-89,103-108: scanner.run(step_config) is called and awaited
StepCallRun ==
    /\ ppc = "loop"
    /\ step <= Len(steps)
    /\ step_config.tool_name \in _scanners
    /\ ppc' = "await_run"
    /\ rpc' = IF step_config.tool_name = "clamav" THEN "clamav_run" ELSE "run"
    /\ result' = None
    /\ cmd' = None
    /\ children' = <<>>
    /\ available' = None
    /\ wait_outcome' = "none"
    /\ parse_call' = "none"
    /\ UNCHANGED <<pipeline_config, step, presult, _results, now>>
    /\ UNCHANGED aux_vars
    /\ UNCHANGED output_dirs

\* mutant: a timeout stops the pipeline like a failure
Mut_StopOnTimeout(stop, status) == stop /\ status \in {FAILED, TIMED_OUT}

\* pipeline.py:117-120: the stop_on_failure short-circuit
StopsPipeline(stop, status) == stop /\ status = FAILED

\* pipeline.py:108-128: run has returned; the result is appended, and the
\* pipeline returns early when stop_on_failure is set and the step failed
StepReturned ==
    /\ ppc = "await_run"
    /\ rpc = "returned"
    /\ LET scan_result == result[1]
           appended == [presult[1] EXCEPT !.scan_results = Append(@, scan_result)]
       IN  IF StopsPipeline(pipeline_config.stop_on_failure, scan_result.status)
           THEN LET final == [appended EXCEPT !.status = FAILED,
                                              !.completed_at = Some(now)]
                IN  /\ presult' = Some(final)
                    /\ _results' = StoreResult(final)
                    /\ ppc' = "returned"
                    /\ step' = step
           ELSE /\ presult' = Some(appended)
                /\ _results' = _results
                /\ ppc' = "loop"
                /\ step' = step + 1
    /\ rpc' = "idle"
    /\ result' = None
    /\ cmd' = None
    /\ children' = <<>>
    /\ available' = None
    /\ wait_outcome' = "none"
    /\ parse_call' = "none"
    /\ UNCHANGED <<pipeline_config, now>>
    /\ UNCHANGED aux_vars
    /\ UNCHANGED output_dirs

\* pipeline.py:108: an exception that leaves run is not caught by run_pipeline
StepRaised ==
    /\ ppc = "await_run"
    /\ rpc = "raised"
    /\ ppc' = "raised"
    /\ rpc' = "idle"
    /\ UNCHANGED <<pipeline_config, step, presult, _results, now>>
    /\ UNCHANGED run_locals
    /\ UNCHANGED aux_vars
    /\ UNCHANGED output_dirs

\* pipeline.py:130-140: every step was processed
PipelineCompleted ==
    /\ ppc = "loop"
    /\ step > Len(steps)
    /\ LET final == [presult[1] EXCEPT !.status = COMPLETED,
                                       !.completed_at = Some(now)]
       IN  /\ presult' = Some(final)
           /\ _results' = StoreResult(final)
    /\ ppc' = "returned"
    /\ UNCHANGED <<pipeline_config, step, rpc, now>>
    /\ UNCHANGED run_locals
    /\ UNCHANGED aux_vars
    /\ UNCHANGED output_dirs

----------------------------------------------------------------------------
(* ClamAVScanner.run and _update_signatures, clamav.py:84-118 *)

\* clamav.py:84-96: freshclam is looked up unless the run is a dry run; a
\* FileNotFoundError of get_tool_path("freshclam") skips the update
ClamAVRun ==
    /\ rpc = "clamav_run"
    /\ IF update_before_scan /\ ~step_config.dry_run
       THEN \E freshclam_found \in BOOLEAN :
                rpc' = IF freshclam_found THEN "freshclam_spawn" ELSE "run"
       ELSE rpc' = "run"
    /\ UNCHANGED pipeline_locals
    /\ UNCHANGED run_locals
    /\ UNCHANGED now
    /\ UNCHANGED aux_vars
    /\ UNCHANGED output_dirs

\* clamav.py:99-104,117-118: freshclam is spawned; a spawn error is logged
FreshclamSpawn ==
    /\ rpc = "freshclam_spawn"
    /\ \E spawned \in BOOLEAN :
          IF spawned
          THEN /\ children' = Append(children, Child(exe_name("freshclam")))
               /\ rpc' = "freshclam_wait"
          ELSE /\ children' = children
               /\ rpc' = "run"
    /\ UNCHANGED pipeline_locals
    /\ UNCHANGED <<result, cmd, available, wait_outcome, parse_call, now>>
    /\ UNCHANGED aux_vars
    /\ UNCHANGED output_dirs

\* clamav.py:105-118: wait for freshclam; it exits (with any code), or the
\* wait times out or fails, which is logged and leaves the child as it is
FreshclamWait ==
    /\ rpc = "freshclam_wait"
    /\ \E exited \in BOOLEAN :
          children' = IF exited THEN SetLastChild("exited") ELSE children
    /\ rpc' = "run"
    /\ UNCHANGED pipeline_locals
    /\ UNCHANGED <<result, cmd, available, wait_outcome, parse_call, now>>
    /\ UNCHANGED aux_vars
    /\ UNCHANGED output_dirs

----------------------------------------------------------------------------
(* ScannerBase.run, scanner_base.py:76-212 *)

tool_name == step_config.tool_name

\* scanner_base.py:87-90: the ScanResult is created, status PENDING
RunBegin ==
    /\ rpc = "run"
    /\ result' = Some(NewScanResult(step_config))
    /\ rpc' = "check"
    /\ UNCHANGED pipeline_locals
    /\ UNCHANGED <<cmd, children, available, wait_outcome, parse_call, now>>
    /\ UNCHANGED aux_vars
    /\ UNCHANGED output_dirs

\* mutant: a missing tool is reported as a failure
Mut_NotInstalledFailed(r) ==
    [r EXCEPT !.status = FAILED,
              !.error_message = Some(<<r.tool_name, "is not installed.">>)]

\* scanner_base.py:94-98: the result of a run whose tool is not installed
NotInstalledResult(r) ==
    [r EXCEPT !.status = SKIPPED,
              !.error_message = Some(<<r.tool_name, "is not installed.",
                  "Run 'python main.py security setup' or install manually.">>)]

\* scanner_base.py:92-100: the availability gate; is_available() is what
\* check_tool(tool_name).installed says at this moment
CheckAvailable ==
    /\ rpc = "check"
    /\ \E installed \in BOOLEAN :
          /\ available' = Some(installed)
          /\ IF ~installed
             THEN Return(NotInstalledResult(result[1]))
             ELSE /\ result' = result
                  /\ rpc' = "mkdir"
    /\ UNCHANGED pipeline_locals
    /\ UNCHANGED <<cmd, children, wait_outcome, parse_call, now>>
    /\ UNCHANGED aux_vars
    /\ UNCHANGED output_dirs

\* scanner_base.py:209: datetime.now().strftime("%Y%m%d_%H%M%S") keeps the
\* whole seconds of the clock reading
strftime(t) == t \div TicksPerSecond

\* scanner_base.py:207-212: Path(output_dir) / tool_name / timestamp
_create_output_dir(tool, t) == [tool_name |-> tool, timestamp |-> strftime(t)]

\* scanner_base.py:103,207-212: _create_output_dir; an OSError of mkdir is
\* not inside any try block of run and leaves it
CreateOutputDir ==
    /\ rpc = "mkdir"
    /\ \E created \in BOOLEAN :
          IF created
          THEN /\ output_dirs' = output_dirs \cup
                      {_create_output_dir(tool_name, now * TicksPerSecond)}
               /\ rpc' = "build"
          ELSE /\ output_dirs' = output_dirs
               /\ rpc' = "raised"
    /\ UNCHANGED pipeline_locals
    /\ UNCHANGED run_locals
    /\ UNCHANGED now
    /\ UNCHANGED aux_vars

\* scanner_base.py:108-112: the result of a run whose build_command raised
BuildFailedResult(r, e) ==
    [r EXCEPT !.status = FAILED,
              !.error_message = Some(<<"Failed to build command:", e>>)]

\* scanner_base.py:105-114: build_command returns the argv or raises
BuildCommand ==
    /\ rpc = "build"
    /\ \E built \in BOOLEAN :
          IF built
          THEN /\ cmd' = Some(build_command(tool_name))
               /\ result' = result
               /\ rpc' = "dry_run"
          ELSE /\ cmd' = cmd
               /\ Return(BuildFailedResult(result[1], "FileNotFoundError"))
    /\ UNCHANGED pipeline_locals
    /\ UNCHANGED <<children, available, wait_outcome, parse_call, now>>
    /\ UNCHANGED aux_vars
    /\ UNCHANGED output_dirs

\* mutant: the dry run does not say which command it would run
Mut_DryRunNoCommand(r, c) ==
    [r EXCEPT !.status = COMPLETED, !.stdout = <<"[DRY RUN]">>]

\* scanner_base.py:118-119: the result of a dry run
DryRunResult(r, c) ==
    [r EXCEPT !.status = COMPLETED,
              !.stdout = <<"[DRY RUN] Would execute: ">> \o Join(c)]

\* scanner_base.py:116-125: a dry run returns here; otherwise the result
\* becomes RUNNING and started_at is read from the clock
DryRunOrStart ==
    /\ rpc = "dry_run"
    /\ IF step_config.dry_run
       THEN Return(DryRunResult(result[1], cmd[1]))
       ELSE /\ result' = Some([result[1] EXCEPT !.status = RUNNING,
                                                !.started_at = Some(now)])
            /\ rpc' = "spawn"
    /\ UNCHANGED pipeline_locals
    /\ UNCHANGED <<cmd, children, available, wait_outcome, parse_call, now>>
    /\ UNCHANGED aux_vars
    /\ UNCHANGED output_dirs

\* mutant: the handler of a subprocess error leaves the status as it is
Mut_SubprocessErrorKeepsStatus(r, e, t) ==
    [r EXCEPT !.error_message = Some(<<"Subprocess error:", e>>),
              !.completed_at = Some(t),
              !.duration_seconds = Duration(r, t)]

\* scanner_base.py:166-174: the result of a run whose subprocess code raised
SubprocessErrorResult(r, e, t) ==
    [r EXCEPT !.status = FAILED,
              !.error_message = Some(<<"Subprocess error:", e>>),
              !.completed_at = Some(t),
              !.duration_seconds = Duration(r, t)]

\* scanner_base.py:127-132,166-175: create_subprocess_exec spawns the child
\* or raises (the executable vanished, permission denied)
Spawn ==
    /\ rpc = "spawn"
    /\ \E spawned \in BOOLEAN :
          IF spawned
          THEN /\ children' = Append(children, Child(cmd[1][1]))
               /\ result' = result
               /\ rpc' = "communicate"
          ELSE /\ children' = children
               /\ Return(SubprocessErrorResult(result[1], "OSError", now))
    /\ UNCHANGED pipeline_locals
    /\ UNCHANGED <<cmd, available, wait_outcome, parse_call, now>>
    /\ UNCHANGED aux_vars
    /\ UNCHANGED output_dirs

\* scanner_base.py:133-139: the child exits within the timeout after
\* elapsed time d; exit code and output are captured (the listing of
\* output_files, :141-145, is not part of this model)
CommunicateExit ==
    /\ rpc = "communicate"
    /\ \E d \in ExitElapsed, rc \in ReturnCodes, output \in ChildOutputs :
          /\ d <= step_config.timeout
          /\ now' = now + d
          /\ result' = Some([result[1] EXCEPT !.return_code = Some(rc),
                                              !.stdout = output.stdout,
                                              !.stderr = output.stderr])
    /\ children' = SetLastChild("exited")
    /\ wait_outcome' = "exited"
    /\ rpc' = "finish"
    /\ UNCHANGED pipeline_locals
    /\ UNCHANGED <<cmd, available, parse_call>>
    /\ UNCHANGED aux_vars
    /\ UNCHANGED output_dirs

\* scanner_base.py:133-136,147-152: wait_for raises TimeoutError when the
\* child is still running after config.timeout
CommunicateTimeout ==
    /\ rpc = "communicate"
    /\ now' = now + step_config.timeout
    /\ result' = Some([result[1] EXCEPT
            !.status = TIMED_OUT,
            !.error_message = Some(<<tool_name, "timed out after",
                                     ToString(step_config.timeout), "s">>)])
    /\ wait_outcome' = "timeout"
    /\ rpc' = "kill"
    /\ UNCHANGED pipeline_locals
    /\ UNCHANGED <<cmd, children, available, parse_call>>
    /\ UNCHANGED aux_vars
    /\ UNCHANGED output_dirs

\* scanner_base.py:133-136,166-175: communicate fails with an I/O error
\* after elapsed time d; the child is left as it is
CommunicateError ==
    /\ rpc = "communicate"
    /\ \E d \in ExitElapsed :
          /\ d <= step_config.timeout
          /\ now' = now + d
          /\ Return(SubprocessErrorResult(result[1], "OSError", now + d))
    /\ wait_outcome' = "error"
    /\ UNCHANGED pipeline_locals
    /\ UNCHANGED <<cmd, children, available, parse_call>>
    /\ UNCHANGED aux_vars
    /\ UNCHANGED output_dirs

\* mutant: the timeout handler does not kill the child
Mut_KillSkipped(cs, already_exited) == cs

\* scanner_base.py:153-158: process.kill() and process.wait(); kill raises
\* ProcessLookupError when the child has exited in the meantime, which the
\* handler swallows
KillChild(cs, already_exited) ==
    [cs EXCEPT ![Len(cs)].state = IF already_exited THEN "exited" ELSE "killed"]

\* scanner_base.py:153-164: the timeout handler kills the child, records
\* completed_at and the duration, and returns without parsing
KillAndReturn ==
    /\ rpc = "kill"
    /\ \E already_exited \in BOOLEAN :
          children' = KillChild(children, already_exited)
    /\ Return([result[1] EXCEPT !.completed_at = Some(now),
                                !.duration_seconds = Duration(result[1], now)])
    /\ UNCHANGED pipeline_locals
    /\ UNCHANGED <<cmd, available, wait_outcome, parse_call, now>>
    /\ UNCHANGED aux_vars
    /\ UNCHANGED output_dirs

\* scanner_base.py:191-199: the final status and error message
Classify(r) ==
    IF r.return_code[1] = 0 \/ _is_success_return_code(r.tool_name, r.return_code[1])
    THEN [r EXCEPT !.status = COMPLETED]
    ELSE [r EXCEPT !.status = FAILED,
                   !.error_message =
                        IF r.error_message = None
                        THEN Some(<<r.tool_name, "exited with code",
                                    ToString(r.return_code[1])>>)
                        ELSE @]

\* mutant: a parse failure fails the scan
Mut_ParseFailureFails(r, raised, fs) ==
    IF raised
    THEN [r EXCEPT !.status = FAILED,
                   !.error_message = Some(<<"Failed to parse output">>)]
    ELSE Classify([r EXCEPT !.findings = fs])

\* scanner_base.py:183-199: parse_output returned fs or raised, which is
\* logged and leaves no findings; then the exit code decides the status
ParseResult(r, raised, fs) ==
    Classify([r EXCEPT !.findings = IF raised THEN <<>> ELSE fs])

\* scanner_base.py:177-205: completed_at and the duration are recorded,
\* parse_output is called (it returns findings or raises), the exit code
\* decides the status
ParseAndClassify ==
    /\ rpc = "finish"
    /\ \E raised \in BOOLEAN, fs \in ParsedFindings :
          /\ raised => fs = <<>>
          /\ parse_call' = IF raised THEN "raised" ELSE "returned"
          /\ Return(ParseResult([result[1] EXCEPT
                    !.completed_at = Some(now),
                    !.duration_seconds = Duration(result[1], now)], raised, fs))
    /\ UNCHANGED pipeline_locals
    /\ UNCHANGED <<cmd, children, available, wait_outcome, now>>
    /\ UNCHANGED aux_vars
    /\ UNCHANGED output_dirs

----------------------------------------------------------------------------

Next ==
    \/ CallRunPipeline
    \/ StepUnregistered
    \/ StepCallRun
    \/ StepReturned
    \/ StepRaised
    \/ PipelineCompleted
    \/ ClamAVRun
    \/ FreshclamSpawn
    \/ FreshclamWait
    \/ RunBegin
    \/ CheckAvailable
    \/ CreateOutputDir
    \/ BuildCommand
    \/ DryRunOrStart
    \/ Spawn
    \/ CommunicateExit
    \/ CommunicateTimeout
    \/ CommunicateError
    \/ KillAndReturn
    \/ ParseAndClassify

Spec == Init /\ [][Next]_vars

SpecLong == InitLong /\ [][Next]_vars

\* the types of the variables
TypeOK ==
    /\ pipeline_config \in PipelineConfigs \cup LongPipelineConfigs
                          \cup HistPipelineConfigs \cup FeedPipelineConfigs
    /\ ppc \in {"call", "loop", "await_run", "returned", "raised"}
    /\ step \in 1..(Len(steps) + 1)
    /\ Len(presult) <= 1
    /\ Len(_results) <= MaxCalls
    /\ rpc \in {"idle", "clamav_run", "freshclam_spawn", "freshclam_wait", "run",
                "check", "mkdir", "build", "dry_run", "spawn", "communicate",
                "kill", "finish", "returned", "raised"}
    /\ Len(result) <= 1
    /\ \A k \in 1..Len(result) : result[k].status \in ScanStatus
    /\ Len(cmd) <= 1
    /\ \A k \in 1..Len(children) : children[k].state \in {"running", "exited", "killed"}
    /\ now \in 0..(MaxCalls * Len(steps) * DefaultTimeout)
    /\ available \in {None, Some(TRUE), Some(FALSE)}
    /\ wait_outcome \in {"none", "exited", "timeout", "error"}
    /\ parse_call \in {"none", "returned", "raised"}
    /\ \A d \in output_dirs : d.tool_name \in _scanners
    /\ calls \in 1..MaxCalls
    /\ Len(returned) <= 1
    /\ clock \in 0..MaxClock
    /\ \A r \in Runs :
          /\ scans[r].pc \in {"idle", "mkdir", "communicate", "returned",
                              "raised"}
          /\ Len(scans[r].output_dir) <= 1
          /\ \A f \in scans[r].output_files : <<f.dir>> = scans[r].output_dir
    /\ config \in ToolOverrides
    /\ DOMAIN _tools \subseteq {d.name : d \in DEFAULT_TOOLS}
    /\ \A n \in DOMAIN _tools :
          /\ _tools[n].installed \in BOOLEAN
          /\ Len(_tools[n].path) <= 1
          /\ \A k \in 1..Len(_tools[n].path) : _tools[n].path[k] \in Locations
    /\ files \subseteq Locations
    /\ Len(outcome) <= 1
    /\ download.pc \in {"idle", "get_release", "get_asset"}
    /\ Len(parsed) <= 1
    /\ boot.pc \in {"idle", "loop", "returned", "raised"}
    /\ DOMAIN boot.results \subseteq DOMAIN _tools

----------------------------------------------------------------------------
(* The result history of a ScanPipeline, pipeline.py:142-154, over several  *)
(* run_pipeline calls.                                                      *)

\* Python's list[-n:] for n >= 0: the last n elements, all of them when the
\* list is shorter; -0 is 0 and list[0:] is the whole list
LastN(list, n) ==
    IF n = 0 \/ n >= Len(list) THEN list
    ELSE SubSeq(list, Len(list) - n + 1, Len(list))

\* pipeline.py:142-144
get_recent_results(results, limit) == LastN(results, limit)

\* pipeline.py:149-153: the two nested loops of get_all_findings, at run i
\* (counting down: reversed(self._results)) and scan result k of that run
\* (counting up), with the findings gathered so far
RECURSIVE GatherFindings(_, _, _, _, _)
GatherFindings(results, i, k, findings, limit) ==
    IF i = 0 THEN findings
    ELSE IF k > Len(results[i].scan_results)
    THEN GatherFindings(results, i - 1, 1, findings, limit)
    ELSE LET extended == findings \o results[i].scan_results[k].findings
         IN  IF Len(extended) >= limit
             THEN SubSeq(extended, 1, limit)
             ELSE GatherFindings(results, i, k + 1, extended, limit)

\* pipeline.py:146-154
get_all_findings(results, limit) ==
    GatherFindings(results, Len(results), 1, <<>>, limit)

\* A Finding is an object; the feed hands back the objects held by the
\* history.  Each object is written with the place that holds it: the run
\* and the step that produced it.
FindingObjects(results) ==
    [i \in 1..Len(results) |->
        [results[i] EXCEPT !.scan_results =
            [k \in 1..Len(results[i].scan_results) |->
                [results[i].scan_results[k] EXCEPT !.findings =
                    [j \in 1..Len(results[i].scan_results[k].findings) |->
                        [severity |-> results[i].scan_results[k].findings[j],
                         run |-> i, step |-> k]]]]]]

\* the first run_pipeline call of a history
InitHistory ==
    /\ pipeline_config \in HistPipelineConfigs
    /\ ppc = "call"
    /\ step = 1
    /\ presult = None
    /\ _results = <<>>
    /\ rpc = "idle"
    /\ result = None
    /\ cmd = None
    /\ children = <<>>
    /\ now = 0
    /\ available = None
    /\ wait_outcome = "none"
    /\ parse_call = "none"
    /\ output_dirs = {}
    /\ AuxInit

\* test_pipeline.py:187-188: the caller calls run_pipeline again once the
\* call before has returned or raised
CallAgain ==
    /\ ppc \in {"returned", "raised"}
    /\ calls < MaxCalls
    /\ calls' = calls + 1
    /\ pipeline_config' \in HistPipelineConfigs
    /\ ppc' = "call"
    /\ step' = 1
    /\ presult' = None
    /\ rpc' = "idle"
    /\ result' = None
    /\ cmd' = None
    /\ children' = <<>>
    /\ available' = None
    /\ wait_outcome' = "none"
    /\ parse_call' = "none"
    /\ returned' = None
    /\ UNCHANGED <<_results, now, output_dirs>>
    /\ UNCHANGED <<dir_vars, tool_vars, parse_vars, boot_vars>>

\* pipeline.py:142-144, called between two run_pipeline calls (a call in
\* progress writes the history only in the step in which it returns)
GetRecentResults ==
    /\ ppc \in {"call", "returned", "raised"}
    /\ \E limit \in RecentLimits :
          returned' = Some([query |-> "get_recent_results",
                            value |-> get_recent_results(_results, limit)])
    /\ UNCHANGED scan_vars
    /\ UNCHANGED calls
    /\ UNCHANGED <<dir_vars, tool_vars, parse_vars, boot_vars>>

\* pipeline.py:146-154, called between two run_pipeline calls
GetAllFindings ==
    /\ ppc \in {"call", "returned", "raised"}
    /\ \E limit \in FindingsLimits :
          returned' = Some([query |-> "get_all_findings",
                            value |-> get_all_findings(FindingObjects(_results),
                                                       limit)])
    /\ UNCHANGED scan_vars
    /\ UNCHANGED calls
    /\ UNCHANGED <<dir_vars, tool_vars, parse_vars, boot_vars>>

NextHistory ==
    \/ CallRunPipeline
    \/ StepUnregistered
    \/ StepCallRun
    \/ StepReturned
    \/ StepRaised
    \/ PipelineCompleted
    \/ RunBegin
    \/ CheckAvailable
    \/ CreateOutputDir
    \/ BuildCommand
    \/ DryRunOrStart
    \/ Spawn
    \/ CommunicateExit
    \/ CommunicateTimeout
    \/ CommunicateError
    \/ KillAndReturn
    \/ ParseAndClassify
    \/ CallAgain
    \/ GetRecentResults
    \/ GetAllFindings

SpecHistory == InitHistory /\ [][NextHistory]_vars

\* test_pipeline.py:193-205: one run_pipeline call of a two-step pipeline,
\* then get_all_findings
InitFeed ==
    /\ pipeline_config \in FeedPipelineConfigs
    /\ ppc = "call"
    /\ step = 1
    /\ presult = None
    /\ _results = <<>>
    /\ rpc = "idle"
    /\ result = None
    /\ cmd = None
    /\ children = <<>>
    /\ now = 0
    /\ available = None
    /\ wait_outcome = "none"
    /\ parse_call = "none"
    /\ output_dirs = {}
    /\ AuxInit

NextFeed ==
    \/ CallRunPipeline
    \/ StepUnregistered
    \/ StepCallRun
    \/ StepReturned
    \/ StepRaised
    \/ PipelineCompleted
    \/ RunBegin
    \/ CheckAvailable
    \/ CreateOutputDir
    \/ BuildCommand
    \/ DryRunOrStart
    \/ Spawn
    \/ CommunicateExit
    \/ CommunicateTimeout
    \/ CommunicateError
    \/ KillAndReturn
    \/ ParseAndClassify
    \/ GetAllFindings

SpecFeed == InitFeed /\ [][NextFeed]_vars

----------------------------------------------------------------------------
(* The output directories, scanner_base.py:103,141-145,207-212: several     *)
(* runs of the scanner of one step, one after the other or concurrent, all  *)
(* with the same tool and the same output_dir.                              *)

\* clamav.py:38,43: the log file output_dir / "clamscan.log" named on the
\* command line, in directory d, holding what the children of runs ws wrote
LogFile(d, ws) == [dir |-> d, name |-> "clamscan.log", written_by |-> ws]

\* scanner_base.py:142-145: output_dir.rglob("*"), the files under d
rglob(d) == {f \in disk : f.dir = d}

\* the step all the runs execute: a real run of the clamav scanner
InitDirs ==
    /\ pipeline_config \in {c \in LongPipelineConfigs :
                               /\ Len(c.steps) = 1
                               /\ c.steps[1].tool_name = "clamav"}
    /\ ppc = "call"
    /\ step = 1
    /\ presult = None
    /\ _results = <<>>
    /\ rpc = "idle"
    /\ result = None
    /\ cmd = None
    /\ children = <<>>
    /\ now = 0
    /\ available = None
    /\ wait_outcome = "none"
    /\ parse_call = "none"
    /\ output_dirs = {}
    /\ AuxInit

\* the wall clock advances
Tick ==
    /\ clock < MaxClock
    /\ clock' = clock + 1
    /\ UNCHANGED <<scans, disk>>
    /\ UNCHANGED <<scan_vars, hist_vars, tool_vars, parse_vars,
                   boot_vars>>

\* scanner_base.py:92-100: run r gets past the availability gate
DirGatePassed(r) ==
    /\ scans[r].pc = "idle"
    /\ scans' = [scans EXCEPT ![r].pc = "mkdir"]
    /\ UNCHANGED <<clock, disk>>
    /\ UNCHANGED <<scan_vars, hist_vars, tool_vars, parse_vars,
                   boot_vars>>

\* scanner_base.py:103-132,207-212: the directory is named after the clock
\* reading and made with exist_ok=True, the child is spawned with it; an
\* OSError of mkdir leaves run
DirCreated(r) ==
    /\ scans[r].pc = "mkdir"
    /\ \E created \in BOOLEAN :
          scans' = IF created
                   THEN [scans EXCEPT
                           ![r].pc = "communicate",
                           ![r].output_dir =
                               Some(_create_output_dir(step_config.tool_name,
                                                       clock))]
                   ELSE [scans EXCEPT ![r].pc = "raised"]
    /\ UNCHANGED <<clock, disk>>
    /\ UNCHANGED <<scan_vars, hist_vars, tool_vars, parse_vars,
                   boot_vars>>

\* the child of run r writes to its log file; a file of that name that is
\* already in the directory is written to again
DirChildWrites(r) ==
    /\ scans[r].pc = "communicate"
    /\ LET d == scans[r].output_dir[1]
           before == UNION {f.written_by : f \in rglob(d)}
       IN  disk' = {f \in disk : f.dir # d} \cup {LogFile(d, before \cup {r})}
    /\ UNCHANGED <<clock, scans>>
    /\ UNCHANGED <<scan_vars, hist_vars, tool_vars, parse_vars,
                   boot_vars>>

\* scanner_base.py:133-145: the child has exited; output_files lists every
\* file under the directory
DirCollected(r) ==
    /\ scans[r].pc = "communicate"
    /\ scans' = [scans EXCEPT ![r].pc = "returned",
                              ![r].output_files = rglob(scans[r].output_dir[1])]
    /\ UNCHANGED <<clock, disk>>
    /\ UNCHANGED <<scan_vars, hist_vars, tool_vars, parse_vars,
                   boot_vars>>

\* scanner_base.py:147-175: the wait timed out or failed; output_files
\* stays empty
DirNotCollected(r) ==
    /\ scans[r].pc = "communicate"
    /\ scans' = [scans EXCEPT ![r].pc = "returned"]
    /\ UNCHANGED <<clock, disk>>
    /\ UNCHANGED <<scan_vars, hist_vars, tool_vars, parse_vars,
                   boot_vars>>

NextDirs ==
    \/ Tick
    \/ \E r \in Runs : DirGatePassed(r)
    \/ \E r \in Runs : DirCreated(r)
    \/ \E r \in Runs : DirChildWrites(r)
    \/ \E r \in Runs : DirCollected(r)
    \/ \E r \in Runs : DirNotCollected(r)

SpecDirs == InitDirs /\ [][NextDirs]_vars

----------------------------------------------------------------------------
(* ToolManager, tool_manager.py:108-384.  The model follows one entry of    *)
(* the registry: check_tool reads and writes only the entry it is called    *)
(* for and looks only at paths built from that entry's name and exe_name,   *)
(* and no two entries of DEFAULT_TOOLS share an exe_name.                   *)

\* the names the callers ask for: the registered one and an unknown one
ToolNames == DOMAIN _tools \cup {"nonexistent_tool"}

\* mutant: a tool that is found nowhere keeps the path it had
Mut_KeepStalePath(tool, fs) ==
    IF tool.path # <<>> /\ tool.path[1] \in fs
    THEN [tool EXCEPT !.installed = TRUE]
    ELSE IF \E l \in {"direct", "nested", "flat", "PATH"} : l \in fs
    THEN [tool EXCEPT !.installed = TRUE,
                      !.path = IF "direct" \in fs THEN <<"direct">>
                               ELSE IF "nested" \in fs THEN <<"nested">>
                               ELSE IF "flat" \in fs THEN <<"flat">>
                               ELSE <<"PATH">>]
    ELSE [tool EXCEPT !.installed = FALSE]

\* tool_manager.py:141-190: check_tool on a registered entry, with fs the
\* places that are files; the entry as the call leaves and returns it
check_tool(tool, fs) ==
    IF tool.path # <<>> /\ tool.path[1] \in fs
    THEN [tool EXCEPT !.installed = TRUE]
    ELSE IF "direct" \in fs
    THEN [tool EXCEPT !.path = <<"direct">>, !.installed = TRUE]
    ELSE IF "nested" \in fs
    THEN [tool EXCEPT !.path = <<"nested">>, !.installed = TRUE]
    ELSE IF "flat" \in fs
    THEN [tool EXCEPT !.path = <<"flat">>, !.installed = TRUE]
    ELSE IF "PATH" \in fs
    THEN [tool EXCEPT !.path = <<"PATH">>, !.installed = TRUE]
    ELSE [tool EXCEPT !.installed = FALSE, !.path = <<>>]

\* a call that returns v
Returns(call, name, v) ==
    [call |-> call, tool_name |-> name, raised |-> <<>>, value |-> <<v>>]

\* a call that an exception of class e leaves
Raises(call, name, e) ==
    [call |-> call, tool_name |-> name, raised |-> <<e>>, value |-> <<>>]

\* mutant: a missing tool makes get_tool_path raise the unknown-tool error
Mut_GetToolPathKeyError(tool) ==
    IF ~tool.installed \/ tool.path = <<>>
    THEN Raises("get_tool_path", tool.name, "KeyError")
    ELSE Returns("get_tool_path", tool.name, tool.path[1])

\* tool_manager.py:198-205: get_tool_path after its check_tool call
get_tool_path(tool) ==
    IF ~tool.installed \/ tool.path = <<>>
    THEN Raises("get_tool_path", tool.name, "FileNotFoundError")
    ELSE Returns("get_tool_path", tool.name, tool.path[1])

\* mutant: without a configured hash the verification fails
Mut_VerifyNeedsHash(tool) ==
    IF ~tool.installed \/ tool.path = <<>> THEN FALSE
    ELSE IF tool.expected_hash = <<>> THEN FALSE
    ELSE _sha256(tool.path[1]) = lower(tool.expected_hash[1])

\* tool_manager.py:216-229: verify_tool_integrity after its check_tool call
verify_tool_integrity(tool) ==
    IF ~tool.installed \/ tool.path = <<>> THEN FALSE
    ELSE IF tool.expected_hash = <<>> THEN TRUE
    ELSE _sha256(tool.path[1]) = lower(tool.expected_hash[1])

\* a ToolManager is built from a configuration for one of the tools, on a
\* disk where the executable may be a file at any of the places
InitTools ==
    /\ pipeline_config \in {c \in LongPipelineConfigs :
                               /\ Len(c.steps) = 1
                               /\ c.steps[1].tool_name = "clamav"
                               /\ ~c.stop_on_failure}
    /\ ppc = "call"
    /\ step = 1
    /\ presult = None
    /\ _results = <<>>
    /\ rpc = "idle"
    /\ result = None
    /\ cmd = None
    /\ children = <<>>
    /\ now = 0
    /\ available = None
    /\ wait_outcome = "none"
    /\ parse_call = "none"
    /\ output_dirs = {}
    /\ HistInit
    /\ DirInit
    /\ ParseInit
    /\ BootInit
    /\ config \in ToolOverrides
    /\ \E d \in DEFAULT_TOOLS : _tools = _register_default_tools(d, config)
    /\ files \in SUBSET (Locations \ (IF config.path = <<>> THEN {"config"}
                                                           ELSE {}))
    /\ outcome = <<>>
    /\ download = NoDownload

\* what a ToolManager call leaves alone
tool_frame == <<scan_vars, hist_vars, dir_vars, config, parse_vars,
               boot_vars>>

\* the executable appears at a place or disappears from it (an install, a
\* removal, a change of PATH); the caller's last answer is then out of date
FileChange ==
    /\ \E l \in Locations :
          /\ l = "config" => config.path # <<>>
          /\ files' = IF l \in files THEN files \ {l} ELSE files \cup {l}
    /\ outcome' = <<>>
    /\ UNCHANGED <<_tools, download>>
    /\ UNCHANGED tool_frame

\* tool_manager.py:137-190
CallCheckTool ==
    /\ \E name \in ToolNames :
          IF name \notin DOMAIN _tools
          THEN /\ outcome' = <<Raises("check_tool", name, "KeyError")>>
               /\ _tools' = _tools
          ELSE LET tool == check_tool(_tools[name], files)
               IN  /\ _tools' = [_tools EXCEPT ![name] = tool]
                   /\ outcome' = <<Returns("check_tool", name, tool)>>
    /\ UNCHANGED <<files, download>>
    /\ UNCHANGED tool_frame

\* tool_manager.py:192-194: check_tool for every name of the registry
CallCheckAllTools ==
    /\ _tools' = [n \in DOMAIN _tools |-> check_tool(_tools[n], files)]
    /\ outcome' = <<Returns("check_all_tools", "", _tools')>>
    /\ UNCHANGED <<files, download>>
    /\ UNCHANGED tool_frame

\* tool_manager.py:196-205
CallGetToolPath ==
    /\ \E name \in ToolNames :
          IF name \notin DOMAIN _tools
          THEN /\ outcome' = <<Raises("get_tool_path", name, "KeyError")>>
               /\ _tools' = _tools
          ELSE LET tool == check_tool(_tools[name], files)
               IN  /\ _tools' = [_tools EXCEPT ![name] = tool]
                   /\ outcome' = <<get_tool_path(tool)>>
    /\ UNCHANGED <<files, download>>
    /\ UNCHANGED tool_frame

\* tool_manager.py:213-229
CallVerifyToolIntegrity ==
    /\ \E name \in ToolNames :
          IF name \notin DOMAIN _tools
          THEN /\ outcome' = <<Raises("verify_tool_integrity", name,
                                      "KeyError")>>
               /\ _tools' = _tools
          ELSE LET tool == check_tool(_tools[name], files)
               IN  /\ _tools' = [_tools EXCEPT ![name] = tool]
                   /\ outcome' = <<Returns("verify_tool_integrity", name,
                                           verify_tool_integrity(tool))>>
    /\ UNCHANGED <<files, download>>
    /\ UNCHANGED tool_frame

\* tool_manager.py:287: asset_name.endswith(".zip"), for the asset that
\* matched the entry's pattern
IsZip(tool) ==
    /\ tool.github_asset_pattern # <<>>
    /\ tool.github_asset_pattern[Len(tool.github_asset_pattern)] = ".zip"

\* the download_tool call for name ends: v is returned, how says why
DownloadReturns(name, v, how) ==
    /\ outcome' = <<Returns("download_tool", name, v)>>
    /\ download' = [pc |-> "idle", tool_name |-> name, ended |-> how]

\* the download_tool call for name is left by an exception of class e
DownloadRaises(name, e, how) ==
    /\ outcome' = <<Raises("download_tool", name, e)>>
    /\ download' = [pc |-> "idle", tool_name |-> name, ended |-> how]

\* tool_manager.py:237-260: the entry is looked up, the install method and
\* the repository are checked, dest_dir is made (outside the try block) and
\* the latest release is asked for
DownloadBegin ==
    /\ download.pc = "idle"
    /\ \E name \in ToolNames, made \in BOOLEAN :
          IF name \notin DOMAIN _tools
          THEN DownloadRaises(name, "KeyError", "unknown")
          ELSE IF _tools[name].install_method # "github_release"
          THEN DownloadReturns(name, FALSE, "manual")
          ELSE IF _tools[name].github_repo = <<>>
          THEN DownloadReturns(name, FALSE, "no_repo")
          ELSE IF ~made
          THEN DownloadRaises(name, "OSError", "mkdir_error")
          ELSE /\ download' = [pc |-> "get_release", tool_name |-> name,
                               ended |-> ""]
               /\ outcome' = <<>>
    /\ UNCHANGED <<_tools, files>>
    /\ UNCHANGED tool_frame

\* tool_manager.py:261-284: the answer about the latest release: an
\* httpx.HTTPError (transport, or raise_for_status), a body that is not
\* JSON, a release without a matching asset, or the asset to download
DownloadRelease ==
    /\ download.pc = "get_release"
    /\ \E reply \in {"http_error", "bad_json", "no_asset", "asset"} :
          CASE reply = "http_error" ->
                  DownloadReturns(download.tool_name, FALSE, "http_error")
            [] reply = "bad_json" ->
                  DownloadRaises(download.tool_name, "JSONDecodeError",
                                 "bad_json")
            [] reply = "no_asset" ->
                  DownloadReturns(download.tool_name, FALSE, "no_asset")
            [] reply = "asset" ->
                  /\ download' = [download EXCEPT !.pc = "get_asset"]
                  /\ outcome' = <<>>
    /\ UNCHANGED <<_tools, files>>
    /\ UNCHANGED tool_frame

\* tool_manager.py:283-310: the answer with the asset: an httpx.HTTPError,
\* or the asset is written (OSError), a zip is extracted (BadZipFile) and
\* removed, _fixup_exe_name renames a versioned executable, and check_tool
\* decides the returned value; placed is where the executable now is
DownloadAsset ==
    /\ download.pc = "get_asset"
    /\ LET name == download.tool_name IN
       \E reply \in {"http_error", "write_error", "bad_zip", "written"},
          placed \in {{}, {"direct"}, {"nested"}} :
          /\ reply = "bad_zip" => IsZip(_tools[name])
          /\ placed = {"nested"} => IsZip(_tools[name])
          /\ reply # "written" => placed = {}
          /\ files' = files \cup placed
          /\ CASE reply = "http_error" ->
                     /\ DownloadReturns(name, FALSE, "http_error")
                     /\ _tools' = _tools
               [] reply = "write_error" ->
                     /\ DownloadRaises(name, "OSError", "write_error")
                     /\ _tools' = _tools
               [] reply = "bad_zip" ->
                     /\ DownloadRaises(name, "BadZipFile", "bad_zip")
                     /\ _tools' = _tools
               [] reply = "written" ->
                     LET tool == check_tool(_tools[name], files')
                     IN  /\ _tools' = [_tools EXCEPT ![name] = tool]
                         /\ DownloadReturns(name, tool.installed,
                                IF tool.installed THEN "installed"
                                                  ELSE "exe_missing")
    /\ UNCHANGED tool_frame

NextTools ==
    \/ FileChange
    \/ CallCheckTool
    \/ CallCheckAllTools
    \/ CallGetToolPath
    \/ CallVerifyToolIntegrity
    \/ DownloadBegin
    \/ DownloadRelease
    \/ DownloadAsset

SpecTools == InitTools /\ [][NextTools]_vars

----------------------------------------------------------------------------
(* Properties of run_pipeline and of the scanners' run. *)

\* the result the current run call has handed back
Returned == rpc = "returned"
R == result[1]

\* run_pipeline has ended, by a return or by an exception
Ended == ppc \in {"returned", "raised"}
PR == presult[1]

Min(S) == CHOOSE x \in S : \A y \in S : x <= y

\* the tokens of xs occur in ys, in the same order
RECURSIVE OccursInOrder(_, _)
OccursInOrder(xs, ys) ==
    IF xs = <<>> THEN TRUE
    ELSE IF ys = <<>> THEN FALSE
    ELSE IF Head(xs) = Head(ys) THEN OccursInOrder(Tail(xs), Tail(ys))
    ELSE OccursInOrder(xs, Tail(ys))

Tokens(str) == {str[k] : k \in 1..Len(str)}

\* the exit codes that mean success for a tool, as the scanners document them
SuccessCode(tool, rc) == rc = 0 \/ (tool \in {"clamav", "chainsaw"} /\ rc = 1)

\* C1: whenever run_pipeline has ended, its status is Failed exactly when
\* stop_on_failure is set and some executed step's result is Failed, and then
\* scan_results ends with the first Failed result; in every other case the
\* status is Completed and scan_results holds one result per step.
C1_StatusAndResults ==
    Ended =>
        LET failed == {k \in 1..Len(PR.scan_results) :
                            PR.scan_results[k].status = FAILED}
        IN  IF pipeline_config.stop_on_failure /\ failed # {}
            THEN /\ PR.status = FAILED
                 /\ Len(PR.scan_results) = Min(failed)
            ELSE /\ PR.status = COMPLETED
                 /\ Len(PR.scan_results) = Len(steps)

\* the statuses the specification's state machine lets follow one another
SpecTransitions ==
    {<<PENDING, SKIPPED>>, <<PENDING, RUNNING>>, <<RUNNING, COMPLETED>>,
     <<RUNNING, FAILED>>, <<RUNNING, TIMED_OUT>>}

\* C2 as stated: during a run call the result's status changes only along
\* Pending -> Skipped or Pending -> Running -> {Completed, Failed, TimedOut}.
C2_OnlySpecTransitions ==
    [][(result # None /\ result' # None /\ result'[1].status # R.status)
            => <<R.status, result'[1].status>> \in SpecTransitions]_vars

\* C2 as amended: a result is created Pending, and its status changes only
\* along Pending -> Skipped (tool not installed), Pending -> Failed
\* (build_command raised), Pending -> Completed (dry run), or
\* Pending -> Running -> {Completed, Failed, TimedOut}.
C2_StatusTransitions ==
    [][/\ (result = None /\ result' # None) => result'[1].status = PENDING
       /\ (result # None /\ result' # None /\ result'[1].status # R.status) =>
            \/ <<R.status, result'[1].status>> \in SpecTransitions
            \/ /\ <<R.status, result'[1].status>> = <<PENDING, FAILED>>
               /\ rpc = "build"
            \/ /\ <<R.status, result'[1].status>> = <<PENDING, COMPLETED>>
               /\ rpc = "dry_run"
               /\ R.config.dry_run]_vars

\* a run whose build_command raised has gone from Pending to Failed
C2_Witness ==
    /\ Returned
    /\ available = Some(TRUE)
    /\ cmd = None
    /\ R.status = FAILED
    /\ R.started_at = None

\* C3: when the availability gate finds the scanner's tool not installed, run
\* returns Skipped with a remediation message and has spawned no child process.
C3_NoSpawnWhenNotInstalled ==
    (Returned /\ available = Some(FALSE)) =>
        /\ R.status = SKIPPED
        /\ R.error_message # None
        /\ children = <<>>

\* C4: a dry run whose tool is installed and whose build_command succeeded
\* spawns no child process and returns Completed with no findings and a
\* stdout in which the built command occurs.
C4_DryRun ==
    (Returned /\ R.config.dry_run /\ available = Some(TRUE) /\ cmd # None) =>
        /\ children = <<>>
        /\ R.status = COMPLETED
        /\ findings_count(R) = 0
        /\ OccursInOrder(cmd[1], R.stdout)

C4_Witness ==
    /\ Returned
    /\ R.config.dry_run
    /\ available = Some(TRUE)
    /\ cmd # None
    /\ R.tool_name = "clamav"

C7_ParseFailureContained ==
    [][(rpc = "finish" /\ parse_call' = "raised") =>
            /\ rpc' = "returned"
            /\ findings_count(result'[1]) = 0
            /\ result'[1].status =
                    IF SuccessCode(R.tool_name, R.return_code[1])
                    THEN COMPLETED ELSE FAILED
            /\ result'[1].stdout = R.stdout
            /\ result'[1].stderr = R.stderr
            /\ result'[1].return_code = R.return_code]_vars

C7_Witness ==
    /\ Returned
    /\ parse_call = "raised"
    /\ R.status = COMPLETED
    /\ R.stdout # <<>>

\* C8: no failure inside a scan step leaves run or run_pipeline as an
\* exception; run_pipeline returns a PipelineResult holding a ScanResult for
\* every step it has started.
C8_NoExceptionLeaves ==
    /\ rpc # "raised"
    /\ ppc # "raised"
    /\ ppc = "returned" =>
            /\ PR.status \in {COMPLETED, FAILED}
            /\ Len(PR.scan_results) = IF PR.status = FAILED THEN step ELSE Len(steps)

\* the steps of the pipeline that have a registered scanner
Registered == {k \in 1..Len(steps) : steps[k].tool_name \in _scanners}

\* C9: a step without a registered scanner gets a Skipped result, never ends
\* the pipeline, and has no part in the final status: run_pipeline returns
\* Failed exactly when stop_on_failure is set and the result of a step with
\* a registered scanner is Failed, as it would without the step.
C9_UnregisteredStepSkipped ==
    ppc = "returned" =>
        /\ \A k \in 1..Len(PR.scan_results) :
                k \notin Registered =>
                    /\ PR.scan_results[k].status = SKIPPED
                    /\ PR.scan_results[k].tool_name = steps[k].tool_name
        /\ Len(PR.scan_results) < Len(steps) => Len(PR.scan_results) \in Registered
        /\ PR.status =
                IF /\ pipeline_config.stop_on_failure
                   /\ \E k \in Registered :
                        /\ k <= Len(PR.scan_results)
                        /\ PR.scan_results[k].status = FAILED
                THEN FAILED ELSE COMPLETED

\* a returned pipeline with an unregistered step followed by a registered one
C9_Witness ==
    /\ ppc = "returned"
    /\ Len(PR.scan_results) = 2
    /\ 1 \notin Registered
    /\ 2 \in Registered
    /\ pipeline_config.stop_on_failure
    /\ PR.status = FAILED

\* C10 as stated: once a step has ended TimedOut, every later step is still
\* run and gets its own result, so a run_pipeline call that returns with a
\* TimedOut result has one result per step.
C10_AllLaterStepsRun ==
    (/\ ppc = "returned"
     /\ \E k \in 1..Len(PR.scan_results) : PR.scan_results[k].status = TIMED_OUT)
        => Len(PR.scan_results) = Len(steps)

\* C10 as amended: a step that ends TimedOut never ends the pipeline, for
\* both values of stop_on_failure: its result is appended after the results
\* of the earlier steps, which stay as they are, the pipeline keeps status
\* Running and goes on to the next step.
C10_TimeoutDoesNotStop ==
    [][(ppc = "await_run" /\ rpc = "returned" /\ R.status = TIMED_OUT) =>
            /\ ppc' = "loop"
            /\ step' = step + 1
            /\ presult'[1].scan_results = Append(PR.scan_results, R)
            /\ presult'[1].status = RUNNING
            /\ _results' = _results]_vars

\* a pipeline with stop_on_failure that went on after a TimedOut step and
\* was stopped by the Failed step after it
C10_Witness ==
    /\ ppc = "returned"
    /\ pipeline_config.stop_on_failure
    /\ Len(steps) = 3
    /\ Len(PR.scan_results) = 2
    /\ PR.scan_results[1].status = TIMED_OUT
    /\ PR.scan_results[2].status = FAILED

\* C11: steps run in list order without overlap: while the scanner of step
\* N is running, and whenever the loop is about to take step N, exactly the
\* results of steps 1..N-1 have been appended, and the i-th entry of
\* scan_results is the result of the i-th step.
C11_StepsInOrder ==
    presult # None =>
        /\ \A k \in 1..Len(PR.scan_results) :
                /\ k <= Len(steps)
                /\ PR.scan_results[k].config = steps[k]
                /\ PR.scan_results[k].tool_name = steps[k].tool_name
        /\ (rpc # "idle" \/ ppc = "loop") => Len(PR.scan_results) = step - 1

\* the scanner of the second step is running, after a different first step
C11_Witness ==
    /\ ppc = "await_run"
    /\ rpc = "communicate"
    /\ step = 2
    /\ Len(PR.scan_results) = 1
    /\ steps[1] # steps[2]

\* C13: the history is append-only: a step of the program leaves every
\* earlier entry in its place; the step in which a run_pipeline call returns
\* adds exactly one entry at the end, the PipelineResult it returns, with
\* status Completed or Failed; no other step, a query included, changes the
\* history.
C13_HistoryAppendOnly ==
    [][/\ Len(_results') >= Len(_results)
       /\ \A k \in 1..Len(_results) : _results'[k] = _results[k]
       /\ IF ppc # "returned" /\ ppc' = "returned"
          THEN /\ Len(_results') = Len(_results) + 1
               /\ _results'[Len(_results')] = presult'[1]
               /\ presult'[1].status \in {COMPLETED, FAILED}
          ELSE _results' = _results]_vars

\* a query is answered after two calls have returned, one Failed and then
\* one Completed
C13_Witness ==
    /\ Len(_results) = 2
    /\ _results[1].status = FAILED
    /\ _results[2].status = COMPLETED
    /\ returned # None
    /\ returned[1].query = "get_recent_results"
    /\ returned[1].value = <<_results[2]>>

\* finding a was produced later than finding b
ProducedLater(a, b) ==
    \/ a.run > b.run
    \/ a.run = b.run /\ a.step > b.step

\* C14: get_all_findings returns the findings newest first: no finding of
\* the returned list comes before a finding that was produced later, by a
\* later run or by a later step of the same run.
C14_NewestFirst ==
    (returned # None /\ returned[1].query = "get_all_findings") =>
        \A i, j \in 1..Len(returned[1].value) :
            i < j => ~ProducedLater(returned[1].value[j], returned[1].value[i])

\* C12: two scanner runs of one tool with one output_dir that got past the
\* availability gate have different output directories, and the
\* output_files of a run hold no file written by another run.
C12_OutputDirsDistinct ==
    \A r1, r2 \in Runs :
        r1 # r2 =>
            /\ (scans[r1].output_dir # None /\ scans[r2].output_dir # None)
                   => scans[r1].output_dir # scans[r2].output_dir
            /\ \A f \in scans[r1].output_files : r2 \notin f.written_by

----------------------------------------------------------------------------
(* Properties of the ToolManager. *)

\* the last ToolManager call was call and it returned
HasReturned(call) ==
    /\ outcome # <<>>
    /\ outcome[1].call = call
    /\ outcome[1].raised = <<>>

\* the last ToolManager call was call and an exception left it
HasRaised(call) ==
    /\ outcome # <<>>
    /\ outcome[1].call = call
    /\ outcome[1].raised # <<>>

\* C15: on every check_tool call the resolution priority holds: the
\* configured path if it is a file, else a file under tools_dir/<name>/
\* (direct or nested), else the flat tools_dir/<exe_name>, else the binary
\* on PATH.
C15_ResolutionPriority ==
    HasReturned("check_tool") =>
        LET path == outcome[1].value[1].path
        IN  IF config.path # <<>> /\ config.path[1] \in files
            THEN path = config.path
            ELSE IF "direct" \in files \/ "nested" \in files
            THEN path # <<>> /\ path[1] \in {"direct", "nested"} \cap files
            ELSE IF "flat" \in files
            THEN path = <<"flat">>
            ELSE "PATH" \in files => path = <<"PATH">>

\* the entry of name in a ToolManager just built from the configuration
FreshEntry(name) ==
    ToolInfo(CHOOSE d \in DEFAULT_TOOLS : d.name = name, config)

\* C16: the installed flag and the path check_tool returns are those a
\* ToolManager just built from the same configuration returns on the same
\* filesystem, and those the next call returns when no file changes.
C16_PureFunction ==
    HasReturned("check_tool") =>
        LET name == outcome[1].tool_name
            got == outcome[1].value[1]
            fresh == check_tool(FreshEntry(name), files)
            again == check_tool(_tools[name], files)
        IN  /\ got.installed = fresh.installed
            /\ got.path = fresh.path
            /\ got.installed = again.installed
            /\ got.path = again.path

\* the ToolInfo objects the last call returned
ReturnedToolInfos ==
    IF HasReturned("check_tool") THEN {outcome[1].value[1]}
    ELSE IF HasReturned("check_all_tools")
    THEN {outcome[1].value[1][n] : n \in DOMAIN outcome[1].value[1]}
    ELSE {}

\* C17: a ToolInfo returned by check_tool or check_all_tools has installed
\* true only with a path that is a file at that moment, and installed
\* false only with a null path.
C17_InstalledHasFile ==
    \A tool \in ReturnedToolInfos :
        /\ tool.installed => (tool.path # <<>> /\ tool.path[1] \in files)
        /\ ~tool.installed => tool.path = <<>>

\* check_all_tools returns an installed tool found nested under
\* tools_dir/<name>/ that an earlier call had resolved elsewhere or nowhere
C17_Witness ==
    /\ HasReturned("check_all_tools")
    /\ \E tool \in ReturnedToolInfos :
          /\ tool.installed
          /\ tool.path = <<"nested">>
    /\ files = {"nested"}
    /\ config.path # <<>>

\* C18: for a name that is not in the registry check_tool and
\* get_tool_path raise the unknown-tool error (KeyError); for a registered
\* tool that is a file at none of the places check_tool returns
\* installed=false and path=null without raising and get_tool_path raises
\* the not-found error (FileNotFoundError), a different error.
C18_UnknownAndMissing ==
    \A call \in {"check_tool", "get_tool_path"} :
        (outcome # <<>> /\ outcome[1].call = call) =>
            IF outcome[1].tool_name \notin DOMAIN _tools
            THEN outcome[1].raised = <<"KeyError">>
            ELSE files = {} =>
                    IF call = "check_tool"
                    THEN /\ outcome[1].raised = <<>>
                         /\ ~outcome[1].value[1].installed
                         /\ outcome[1].value[1].path = <<>>
                    ELSE /\ outcome[1].raised = <<"FileNotFoundError">>
                         /\ outcome[1].raised # <<"KeyError">>

\* get_tool_path is left by the not-found error for a registered tool whose
\* configured path is not a file, and no other place has it
C18_Witness ==
    /\ HasRaised("get_tool_path")
    /\ outcome[1].tool_name \in DOMAIN _tools
    /\ outcome[1].raised = <<"FileNotFoundError">>
    /\ config.path # <<>>
    /\ files = {}

\* C19: verify_tool_integrity returns false for a tool that is not
\* installed, true for an installed tool without expected_hash, and for an
\* installed tool with expected_hash whether the SHA-256 of the resolved
\* binary is that hash.
C19_VerifyIntegrity ==
    (HasReturned("verify_tool_integrity")
     /\ outcome[1].tool_name \in DOMAIN _tools) =>
        LET tool == _tools[outcome[1].tool_name]
            verdict == outcome[1].value[1]
        IN  /\ ~tool.installed => verdict = FALSE
            /\ (tool.installed /\ tool.expected_hash = <<>>) => verdict = TRUE
            /\ (tool.installed /\ tool.expected_hash # <<>>) =>
                  verdict = (_sha256(tool.path[1]).digest
                                = tool.expected_hash[1].digest)

\* the hash is configured in upper case and the binary under
\* tools_dir/<name>/ has it: the verification returns true
C19_Witness ==
    /\ HasReturned("verify_tool_integrity")
    /\ outcome[1].tool_name \in DOMAIN _tools
    /\ _tools[outcome[1].tool_name].installed
    /\ _tools[outcome[1].tool_name].path = <<"direct">>
    /\ config.expected_hash # <<>>
    /\ config.expected_hash[1].upper
    /\ outcome[1].value[1] = TRUE

\* C20: download_tool for a registered tool returns a boolean and never
\* raises; it returns false for a tool that is not installed from a
\* release, when no asset matches, and when the download or the extraction
\* fails.
C20_DownloadNeverRaises ==
    (outcome # <<>> /\ outcome[1].call = "download_tool"
     /\ outcome[1].tool_name \in DOMAIN _tools) =>
        /\ outcome[1].raised = <<>>
        /\ outcome[1].value \in {<<TRUE>>, <<FALSE>>}
        /\ download.ended \in {"manual", "no_asset", "http_error", "bad_zip"}
              => outcome[1].value = <<FALSE>>

----------------------------------------------------------------------------
(* Further properties of the scanners' run. *)

\* C25: a dry run leaves the filesystem as it was: a pipeline whose steps
\* are all dry runs creates no directory under config.output_dir.
C25_DryRunCreatesNothing ==
    (\A k \in 1..Len(steps) : steps[k].dry_run) => output_dirs = {}

\* the current run call has returned because build_command raised
BuildFailed == Returned /\ available = Some(TRUE) /\ cmd = None

\* C26: when build_command raises, run returns Failed with an error
\* message that holds the exception's message, and no child process was
\* spawned by the run call.
C26_BuildFailure ==
    BuildFailed =>
        /\ R.status = FAILED
        /\ R.error_message # None
        /\ "FileNotFoundError" \in Tokens(R.error_message[1])
        /\ children = <<>>

\* C28: when run returns, every child process it spawned, the freshclam
\* update included, has exited or has been killed.
C28_NoChildOutlivesRun ==
    Returned =>
        \A k \in 1..Len(children) : children[k].state \in {"exited", "killed"}

\* C29: a returned result has a terminal status; it has a return code or
\* findings only if the scanner's child was spawned and exited; Skipped,
\* TimedOut, dry-run and build-failure results have neither.
C29_TerminalResult ==
    Returned =>
        /\ R.status \in {SKIPPED, COMPLETED, FAILED, TIMED_OUT}
        /\ (R.return_code # None \/ R.findings # <<>>) =>
              /\ wait_outcome = "exited"
              /\ children # <<>>
              /\ children[Len(children)].state = "exited"
        /\ (R.status \in {SKIPPED, TIMED_OUT} \/ R.config.dry_run \/ cmd = None)
              => (R.return_code = None /\ R.findings = <<>>)

\* a child exited with a failure code and parse_output returned findings
C29_Witness ==
    /\ Returned
    /\ R.status = FAILED
    /\ R.return_code = Some(2)
    /\ R.findings # <<>>
    /\ wait_outcome = "exited"

----------------------------------------------------------------------------
(* Further properties of the history queries. *)

\* C30: for every limit >= 0 get_recent_results returns the last
\* min(limit, n) results of a history of n results, in the order they were
\* appended.
C30_RecentResults ==
    \A limit \in RecentLimits :
        LET n == Len(_results)
            m == IF limit < n THEN limit ELSE n
        IN  get_recent_results(_results, limit) = SubSeq(_results, n - m + 1, n)

----------------------------------------------------------------------------
(* The findings query of the monitor, security_monitor.py:73-103, over the  *)
(* history of a ScanPipeline.                                               *)

\* longest list of findings one scan of the queried history holds
MaxFindings == 2

\* security_monitor.py:75: the default limit of the findings query
DefaultQueryLimit == 50

\* the limits the clients ask for (Query(50, ge=1, le=500))
QueryLimits == {1, 2, DefaultQueryLimit}

\* models.py SeverityLevel: the severities of the findings of the history
QuerySeverities == {"high", "low"}

\* SeverityLevel.value: the name of the severity, in lower case
value(sev) == [word |-> sev, upper |-> FALSE]

\* the severity parameter of a request: absent, or the name of a severity
\* written in lower or in upper case
SeverityParams ==
    {None} \cup {Some([word |-> w, upper |-> u]) :
                     w \in QuerySeverities, u \in BOOLEAN}

\* a scan of the history: a completed run of a registered scanner whose
\* parse_output returned fs
QueryScanResult(fs) ==
    LET cfg == [tool_name |-> "yara_x", dry_run |-> FALSE,
                timeout |-> DefaultTimeout]
    IN  ParseResult([NewScanResult(cfg) EXCEPT
                        !.status = RUNNING,
                        !.started_at = Some(0),
                        !.return_code = Some(0),
                        !.completed_at = Some(1),
                        !.duration_seconds = Some(1)], FALSE, fs)

\* the PipelineResult a completed one-step run_pipeline call appends
QueryPipelineResult(fs) ==
    [status |-> COMPLETED, started_at |-> Some(0), completed_at |-> Some(1),
     scan_results |-> <<QueryScanResult(fs)>>]

\* the histories the query is asked about
QueryHistories ==
    SeqsUpTo({QueryPipelineResult(fs) :
                  fs \in SeqsUpTo(QuerySeverities, MaxFindings)}, MaxCalls)

\* security_monitor.py:83-85: the findings whose severity is the one asked
\* for, compared in lower case
FilterSeverity(findings, severity) ==
    SelectSeq(findings, LAMBDA f : value(f.severity) = lower(severity))

\* list[:n]
FirstN(list, n) == SubSeq(list, 1, IF n < Len(list) THEN n ELSE Len(list))

\* security_monitor.py:73-103
get_findings(results, limit, severity) ==
    LET all_findings == get_all_findings(FindingObjects(results), limit * 2)
        filtered == IF severity # None
                    THEN FilterSeverity(all_findings, severity[1])
                    ELSE all_findings
        findings_out == FirstN(filtered, limit)
    IN  [findings |-> findings_out, count |-> Len(findings_out)]

\* a monitor whose pipeline holds a history and runs nothing
InitQuery ==
    /\ pipeline_config \in {c \in HistPipelineConfigs :
                              /\ ~c.stop_on_failure
                              /\ c.steps[1].tool_name = "yara_x"}
    /\ ppc = "call"
    /\ step = 1
    /\ presult = None
    /\ _results \in QueryHistories
    /\ rpc = "idle"
    /\ result = None
    /\ cmd = None
    /\ children = <<>>
    /\ now = 1
    /\ available = None
    /\ wait_outcome = "none"
    /\ parse_call = "none"
    /\ output_dirs = {}
    /\ AuxInit

\* GET /security/findings
GetFindings ==
    /\ \E limit \in QueryLimits, severity \in SeverityParams :
          returned' = Some([query |-> "get_findings", limit |-> limit,
                            severity |-> severity,
                            value |-> get_findings(_results, limit, severity)])
    /\ UNCHANGED scan_vars
    /\ UNCHANGED calls
    /\ UNCHANGED <<dir_vars, tool_vars, parse_vars, boot_vars>>

NextQuery == GetFindings

SpecQuery == InitQuery /\ [][NextQuery]_vars

\* the findings of severity sev the whole history holds, in the order of
\* the unbounded feed
FindingsOfSeverity(results, severity) ==
    FilterSeverity(get_all_findings(FindingObjects(results),
                                    MaxCalls * MaxFindings + 1), severity)

\* C27: the findings query with severity s and limit L returns only
\* findings of severity s, and as many as min(L, M), where M is the number
\* of findings of severity s in the whole history.  (That they are the
\* newest ones is left out here: the order of the feed is C14's.)
C27_FilteredFeed ==
    (returned # None /\ returned[1].query = "get_findings"
                     /\ returned[1].severity # None) =>
        LET s == returned[1].severity[1]
            L == returned[1].limit
            M == Len(FindingsOfSeverity(_results, s))
            out == returned[1].value
        IN  /\ \A j \in 1..Len(out.findings) :
                  value(out.findings[j].severity) = lower(s)
            /\ out.count = Len(out.findings)
            /\ out.count = IF L < M THEN L ELSE M

----------------------------------------------------------------------------
(* The severity mappings of the ResultParser, result_parser.py:149-174.     *)
(* Here a str is the sequence of its characters.                            *)

\* longest run of whitespace put before or after a level
MaxPad == 1

Lowers == <<"a", "b", "c", "d", "e", "f", "g", "h", "i", "j", "k", "l", "m",
            "n", "o", "p", "q", "r", "s", "t", "u", "v", "w", "x", "y", "z">>
Uppers == <<"A", "B", "C", "D", "E", "F", "G", "H", "I", "J", "K", "L", "M",
            "N", "O", "P", "Q", "R", "S", "T", "U", "V", "W", "X", "Y", "Z">>

\* the characters str.strip() removes
Whitespace == {" ", "\t"}

\* str.lower() and str.upper() of one character
LowerChar(c) ==
    IF \E i \in DOMAIN Uppers : Uppers[i] = c
    THEN Lowers[CHOOSE i \in DOMAIN Uppers : Uppers[i] = c]
    ELSE c
UpperChar(c) ==
    IF \E i \in DOMAIN Lowers : Lowers[i] = c
    THEN Uppers[CHOOSE i \in DOMAIN Lowers : Lowers[i] = c]
    ELSE c

\* str.lower(), str.upper(), str.capitalize()
lower_str(str) == [i \in DOMAIN str |-> LowerChar(str[i])]
upper_str(str) == [i \in DOMAIN str |-> UpperChar(str[i])]
capitalize(str) ==
    [i \in DOMAIN str |-> IF i = 1 THEN UpperChar(str[i]) ELSE LowerChar(str[i])]

\* str.lstrip(), str.rstrip(), str.strip()
RECURSIVE lstrip(_)
lstrip(str) ==
    IF str # <<>> /\ Head(str) \in Whitespace THEN lstrip(Tail(str)) ELSE str
RECURSIVE rstrip(_)
rstrip(str) ==
    IF str # <<>> /\ str[Len(str)] \in Whitespace
    THEN rstrip(SubSeq(str, 1, Len(str) - 1))
    ELSE str
strip(str) == rstrip(lstrip(str))

\* the level names of the two tools, and one that neither tool writes
w_critical == <<"c", "r", "i", "t", "i", "c", "a", "l">>
w_crit == <<"c", "r", "i", "t">>
w_high == <<"h", "i", "g", "h">>
w_medium == <<"m", "e", "d", "i", "u", "m">>
w_med == <<"m", "e", "d">>
w_low == <<"l", "o", "w">>
w_informational ==
    <<"i", "n", "f", "o", "r", "m", "a", "t", "i", "o", "n", "a", "l">>
w_info == <<"i", "n", "f", "o">>
w_unknown == <<"u", "n", "k", "n", "o", "w", "n">>

\* result_parser.py:152-161: the mapping of severity_from_hayabusa_level
hayabusa_mapping ==
    (w_critical :> "critical") @@ (w_crit :> "critical") @@
    (w_high :> "high") @@ (w_medium :> "medium") @@ (w_med :> "medium") @@
    (w_low :> "low") @@ (w_informational :> "info") @@ (w_info :> "info")

\* result_parser.py:167-173: the mapping of severity_from_sigma_level
sigma_mapping ==
    (w_critical :> "critical") @@ (w_high :> "high") @@
    (w_medium :> "medium") @@ (w_low :> "low") @@
    (w_informational :> "info")

\* dict.get(key, default)
Get(dict, key, default) == IF key \in DOMAIN dict THEN dict[key] ELSE default

\* mutant: the level is looked up without being stripped
Mut_HayabusaNoStrip(lv) == Get(hayabusa_mapping, lower_str(lv), "info")

\* result_parser.py:150-162
severity_from_hayabusa_level(lv) ==
    Get(hayabusa_mapping, strip(lower_str(lv)), "info")

\* result_parser.py:165-174
severity_from_sigma_level(lv) ==
    Get(sigma_mapping, strip(lower_str(lv)), "info")

\* the words the level strings are written from
LevelWords ==
    DOMAIN hayabusa_mapping \cup DOMAIN sigma_mapping \cup {w_unknown, <<>>}

\* the strings that differ from word only in letter case and in leading and
\* trailing whitespace
Variants(word) ==
    {lead \o cased \o trail :
        lead \in SeqsUpTo(Whitespace, MaxPad),
        cased \in {word, upper_str(word), capitalize(word)},
        trail \in SeqsUpTo(Whitespace, MaxPad)}

LevelStrings == UNION {Variants(word) : word \in LevelWords}

\* a level string is about to be mapped
InitSeverity ==
    /\ pipeline_config \in {c \in HistPipelineConfigs :
                              /\ ~c.stop_on_failure
                              /\ c.steps[1].tool_name = "yara_x"}
    /\ ppc = "call"
    /\ step = 1
    /\ presult = None
    /\ _results = <<>>
    /\ rpc = "idle"
    /\ result = None
    /\ cmd = None
    /\ children = <<>>
    /\ now = 0
    /\ available = None
    /\ wait_outcome = "none"
    /\ parse_call = "none"
    /\ output_dirs = {}
    /\ HistInit
    /\ DirInit
    /\ ToolInit
    /\ BootInit
    /\ level \in LevelStrings
    /\ text = NoText
    /\ report_dir = NoReportDir
    /\ parsed = <<>>

\* what a parser call leaves alone
parse_frame == <<scan_vars, hist_vars, dir_vars, tool_vars, boot_vars>>

\* result_parser.py:150-162
MapHayabusaLevel ==
    /\ parsed' = Some([call |-> "severity_from_hayabusa_level",
                       raised |-> <<>>,
                       value |-> severity_from_hayabusa_level(level)])
    /\ UNCHANGED <<level, text, report_dir>>
    /\ UNCHANGED parse_frame

\* result_parser.py:165-174
MapSigmaLevel ==
    /\ parsed' = Some([call |-> "severity_from_sigma_level",
                       raised |-> <<>>,
                       value |-> severity_from_sigma_level(level)])
    /\ UNCHANGED <<level, text, report_dir>>
    /\ UNCHANGED parse_frame

NextSeverity ==
    \/ MapHayabusaLevel
    \/ MapSigmaLevel

SpecSeverity == InitSeverity /\ [][NextSeverity]_vars

\* the mapping the last severity call consulted
MappingOf(call) ==
    IF call = "severity_from_hayabusa_level" THEN hayabusa_mapping
                                             ELSE sigma_mapping

\* C24: both severity mappings give a level string the severity of the word
\* it is a variant of (in letter case, in leading and trailing whitespace),
\* and give info for every word the mapping does not know; they never raise.
C24_SeverityMapping ==
    (parsed # <<>> /\ parsed[1].call \in {"severity_from_hayabusa_level",
                                          "severity_from_sigma_level"}) =>
        /\ parsed[1].raised = <<>>
        /\ \A word \in LevelWords :
              level \in Variants(word) =>
                  parsed[1].value =
                      IF word \in DOMAIN MappingOf(parsed[1].call)
                      THEN MappingOf(parsed[1].call)[word]
                      ELSE "info"

\* " High " was mapped to high
C24_Witness ==
    /\ parsed # <<>>
    /\ parsed[1].call = "severity_from_hayabusa_level"
    /\ level = <<" ">> \o capitalize(w_high) \o <<" ">>
    /\ parsed[1].value = "high"

----------------------------------------------------------------------------
(* The Hayabusa parser, hayabusa.py:56-116 and result_parser.py:19-24.      *)
(* A CSV text is written as csv.reader splits it: the fields of the header  *)
(* line, and below it the fields of each line.                              *)

\* longest list of rows below the header of a timeline
MaxRows == 2

\* the header lines of the timelines: with the column Level, with the column
\* level, without either
Headers ==
    {<<"Timestamp", "Level", "RuleTitle">>,
     <<"Timestamp", "level", "RuleTitle">>,
     <<"Timestamp", "RuleTitle">>}

\* the levels written in the rows
TimelineLevels ==
    {w_critical, <<" ">> \o capitalize(w_high) \o <<" ">>, w_info, w_unknown,
     <<>>}

\* the lines written under header in full
FullRows(header) ==
    {[i \in DOMAIN header |->
        IF header[i] \in {"Level", "level"} THEN lv
        ELSE IF header[i] = "Timestamp" THEN <<"1">>
        ELSE <<"r">>] : lv \in TimelineLevels}

\* the lines of a timeline: written in full, cut short, or blank
RowsOf(header) ==
    {SubSeq(row, 1, n) : row \in FullRows(header), n \in 0..Len(header)}

Timelines ==
    UNION {[header : {header}, rows : SeqsUpTo(RowsOf(header), MaxRows)] :
               header \in Headers}

\* csv.DictReader: the dict of one line; a field the line is too short for
\* is None (restval)
DictOf(header, row) ==
    [name \in {header[i] : i \in DOMAIN header} |->
        LET i == CHOOSE k \in DOMAIN header : header[k] = name
        IN  IF i <= Len(row) THEN Some(row[i]) ELSE None]

\* result_parser.py:19-24: csv.DictReader skips the blank lines; each dict
\* is written with the number of its line
parse_csv_output(csv) ==
    LET kept == SelectSeq([i \in DOMAIN csv.rows |-> i],
                          LAMBDA i : csv.rows[i] # <<>>)
    IN  [k \in DOMAIN kept |->
            [line |-> kept[k], row |-> DictOf(csv.header, csv.rows[kept[k]])]]

\* hayabusa.py:87: row.get("Level", row.get("level", ""))
LevelOf(row) ==
    IF "Level" \in DOMAIN row THEN row["Level"]
    ELSE IF "level" \in DOMAIN row THEN row["level"]
    ELSE Some(<<>>)

\* a parser call that returns findings
Parsed(call, findings) ==
    [call |-> call, raised |-> <<>>, value |-> findings]

\* a parser call that an exception of class e leaves
ParseRaised(call, e) ==
    [call |-> call, raised |-> <<e>>, value |-> <<>>]

\* hayabusa.py:84-114: the loop over the rows, at row k with the findings
\* gathered so far; level.lower() of a level that is None raises
RECURSIVE ParseRows(_, _, _)
ParseRows(rows, k, findings) ==
    IF k > Len(rows) THEN Parsed("_parse_csv_timeline", findings)
    ELSE LET lv == LevelOf(rows[k].row)
         IN  IF lv = None
             THEN ParseRaised("_parse_csv_timeline", "AttributeError")
             ELSE LET severity == severity_from_hayabusa_level(lv[1])
                  IN  IF severity = "info"
                      THEN ParseRows(rows, k + 1, findings)
                      ELSE ParseRows(rows, k + 1,
                               Append(findings,
                                      [tool_name |-> "hayabusa",
                                       severity |-> severity,
                                       line |-> rows[k].line]))

\* hayabusa.py:80-116
_parse_csv_timeline(csv) == ParseRows(parse_csv_output(csv), 1, <<>>)

\* what Hayabusa writes to stdout in quiet mode: nothing, or a summary line
Stdouts == {NoText, [header |-> <<"Summary">>, rows |-> <<>>]}

\* hayabusa.py:56-78: parse_output of a scan whose output_files hold the
\* timeline csv; stdout is parsed when the timeline gave no findings
hayabusa_parse_output(csv, stdout) ==
    LET from_file == _parse_csv_timeline(csv)
    IN  IF from_file.raised # <<>> THEN from_file
        ELSE IF from_file.value = <<>> /\ stdout # NoText
        THEN LET from_stdout == _parse_csv_timeline(stdout)
             IN  IF from_stdout.raised # <<>> THEN from_stdout
                 ELSE Parsed("_parse_csv_timeline",
                             from_file.value \o from_stdout.value)
        ELSE from_file

\* a timeline is about to be parsed
InitTimeline ==
    /\ pipeline_config \in {c \in HistPipelineConfigs :
                              /\ ~c.stop_on_failure
                              /\ c.steps[1].tool_name = "yara_x"}
    /\ ppc = "call"
    /\ step = 1
    /\ presult = None
    /\ _results = <<>>
    /\ rpc = "idle"
    /\ result = None
    /\ cmd = None
    /\ children = <<>>
    /\ now = 0
    /\ available = None
    /\ wait_outcome = "none"
    /\ parse_call = "none"
    /\ output_dirs = {}
    /\ HistInit
    /\ DirInit
    /\ ToolInit
    /\ BootInit
    /\ level = <<>>
    /\ text \in Timelines
    /\ report_dir = NoReportDir
    /\ parsed = <<>>

\* hayabusa.py:56-116
ParseTimeline ==
    /\ \E stdout \in Stdouts :
          parsed' = Some(hayabusa_parse_output(text, stdout))
    /\ UNCHANGED <<level, text, report_dir>>
    /\ UNCHANGED parse_frame

NextTimeline == ParseTimeline

SpecTimeline == InitTimeline /\ [][NextTimeline]_vars

\* the severity the level of line i of the timeline maps to; a line without
\* a level has none, which counts as info
LineSeverity(csv, i) ==
    LET lv == LevelOf(DictOf(csv.header, csv.rows[i]))
    IN  IF lv = None THEN "info" ELSE severity_from_hayabusa_level(lv[1])

\* the lines of the timeline that are to be reported, in their order
ReportedLines(csv) ==
    SelectSeq([i \in DOMAIN csv.rows |-> i],
              LAMBDA i : csv.rows[i] # <<>> /\ LineSeverity(csv, i) # "info")

\* C23: for every timeline the Hayabusa parser returns no finding of
\* severity info: a row whose level maps to info, is unrecognized or is
\* missing is dropped, and every other row yields exactly one finding with
\* the mapped severity.
C23_NoInfoFindings ==
    (parsed # <<>> /\ parsed[1].call = "_parse_csv_timeline") =>
        /\ parsed[1].raised = <<>>
        /\ \A j \in DOMAIN parsed[1].value :
              parsed[1].value[j].severity # "info"
        /\ [j \in DOMAIN parsed[1].value |->
               <<parsed[1].value[j].line, parsed[1].value[j].severity>>]
           = [j \in DOMAIN ReportedLines(text) |->
               <<ReportedLines(text)[j],
                 LineSeverity(text, ReportedLines(text)[j])>>]

----------------------------------------------------------------------------
(* The HollowsHunter parser, hollows_hunter.py:19-125 and                   *)
(* result_parser.py:74-147.  A JSON object is a function of its keys.       *)

\* most processes a report directory tells about
MaxProcesses == 2

\* the process ids (the per-process subdirectories have numeric names)
Pids == 1..MaxProcesses

\* the values of an anomaly counter: none found, some found
Counts == {0, 2}

\* hollows_hunter.py:19-55, in the order of the dict
ANOMALY_SEVERITY ==
    <<[anomaly_type |-> "replaced", severity |-> "critical",
       mitre |-> Some("T1055.012")],
      [anomaly_type |-> "implanted", severity |-> "critical",
       mitre |-> Some("T1055")],
      [anomaly_type |-> "hdr_modified", severity |-> "high",
       mitre |-> Some("T1055")],
      [anomaly_type |-> "patched", severity |-> "medium",
       mitre |-> Some("T1574")],
      [anomaly_type |-> "iat_hooked", severity |-> "high",
       mitre |-> Some("T1574")],
      [anomaly_type |-> "unreachable_file", severity |-> "medium",
       mitre |-> None],
      [anomaly_type |-> "other", severity |-> "low", mitre |-> None]>>

\* the entries of "scanned" in the top-level report, one per process
ProcessInfos == [replaced : Counts, hdr_modified : Counts, iat_hooked : Counts]

\* the per-process reports
ProcessReports == [replaced : Counts, patched : Counts]

\* the functions from a subset of S to T
PartialFunctions(S, T) == UNION {[D -> T] : D \in SUBSET S}

\* the report directories: with or without the top-level scan_report.json,
\* with per-process subdirectories for some of the processes
ReportDirs ==
    [top : {None} \cup {Some([scanned |-> sc]) :
                            sc \in PartialFunctions(Pids, ProcessInfos)},
     subdirs : PartialFunctions(Pids, ProcessReports)]

\* the elements of a set of process ids, in ascending order
InOrder(S) == SelectSeq([p \in Pids |-> p], LAMBDA p : p \in S)

\* the lists of a list of lists, one after another
RECURSIVE Concat(_)
Concat(lists) ==
    IF lists = <<>> THEN <<>> ELSE Head(lists) \o Concat(Tail(lists))

\* result_parser.py:95-116: the raw finding of one entry of "scanned", if
\* the sum of its seven counters is positive
TopRaw(pid, info) ==
    LET total_suspicious ==
            Get(info, "replaced", 0) + Get(info, "implanted", 0)
            + Get(info, "hdr_modified", 0) + Get(info, "patched", 0)
            + Get(info, "iat_hooked", 0) + Get(info, "unreachable_file", 0)
            + Get(info, "other", 0)
    IN  IF total_suspicious > 0
        THEN <<[pid |-> pid,
                name |-> Get(info, "name", "unknown"),
                replaced |-> Get(info, "replaced", 0),
                implanted |-> Get(info, "implanted", 0),
                hdr_modified |-> Get(info, "hdr_modified", 0),
                patched |-> Get(info, "patched", 0),
                iat_hooked |-> Get(info, "iat_hooked", 0),
                unreachable_file |-> Get(info, "unreachable_file", 0),
                other |-> Get(info, "other", 0),
                total_suspicious |-> total_suspicious]>>
        ELSE <<>>

\* result_parser.py:121-143: the raw finding of one per-process report, if
\* the sum of four of its counters is positive
SubdirRaw(pid, data) ==
    LET total_suspicious ==
            Get(data, "replaced", 0) + Get(data, "implanted", 0)
            + Get(data, "hdr_modified", 0) + Get(data, "patched", 0)
    IN  IF total_suspicious > 0
        THEN <<[pid |-> pid,
                name |-> Get(data, "main_image_path", "unknown"),
                replaced |-> Get(data, "replaced", 0),
                implanted |-> Get(data, "implanted", 0),
                hdr_modified |-> Get(data, "hdr_modified", 0),
                patched |-> Get(data, "patched", 0),
                total_suspicious |-> total_suspicious]>>
        ELSE <<>>

\* result_parser.py:74-147: the raw findings of the top-level report, then
\* those of the per-process subdirectories
parse_hollows_hunter_report(dir) ==
    LET scanned == IF dir.top = None THEN <<>>
                   ELSE Get(dir.top[1], "scanned", <<>>)
        tops == InOrder(DOMAIN scanned)
        subs == InOrder(DOMAIN dir.subdirs)
    IN  Concat([k \in DOMAIN tops |-> TopRaw(tops[k], scanned[tops[k]])])
        \o Concat([k \in DOMAIN subs |->
                      SubdirRaw(subs[k], dir.subdirs[subs[k]])])

\* hollows_hunter.py:97-125: one Finding for every row of the table whose
\* counter is positive in raw
_raw_to_findings(raw) ==
    LET hits == SelectSeq(ANOMALY_SEVERITY,
                          LAMBDA row : Get(raw, row.anomaly_type, 0) > 0)
    IN  [k \in DOMAIN hits |->
            [tool_name |-> "hollows_hunter",
             severity |-> hits[k].severity,
             anomaly_type |-> hits[k].anomaly_type,
             pid |-> Get(raw, "pid", "unknown"),
             mitre_attack |-> hits[k].mitre]]

\* hollows_hunter.py:81-95: the first scan_report.json of output_files is
\* the top-level one when it exists (rglob lists a directory before its
\* subdirectories); otherwise it is the one of a subdirectory, which has no
\* "scanned" and no subdirectories of its own
hollows_parse_output(dir) ==
    IF dir.top # None
    THEN LET raw_findings == parse_hollows_hunter_report(dir)
         IN  Parsed("hollows_hunter.parse_output",
                    Concat([k \in DOMAIN raw_findings |->
                               _raw_to_findings(raw_findings[k])]))
    ELSE Parsed("hollows_hunter.parse_output", <<>>)

\* a report directory is about to be parsed
InitReport ==
    /\ pipeline_config \in {c \in HistPipelineConfigs :
                              /\ ~c.stop_on_failure
                              /\ c.steps[1].tool_name = "yara_x"}
    /\ ppc = "call"
    /\ step = 1
    /\ presult = None
    /\ _results = <<>>
    /\ rpc = "idle"
    /\ result = None
    /\ cmd = None
    /\ children = <<>>
    /\ now = 0
    /\ available = None
    /\ wait_outcome = "none"
    /\ parse_call = "none"
    /\ output_dirs = {}
    /\ HistInit
    /\ DirInit
    /\ ToolInit
    /\ BootInit
    /\ level = <<>>
    /\ text = NoText
    /\ report_dir \in ReportDirs
    /\ parsed = <<>>

\* hollows_hunter.py:81-125
ParseReport ==
    /\ parsed' = Some(hollows_parse_output(report_dir))
    /\ UNCHANGED <<level, text, report_dir>>
    /\ UNCHANGED parse_frame

NextReport == ParseReport

SpecReport == InitReport /\ [][NextReport]_vars

\* the report directory tells that counter a of process p is not zero
NonZero(dir, p, a) ==
    \/ /\ dir.top # None
       /\ p \in DOMAIN dir.top[1].scanned
       /\ Get(dir.top[1].scanned[p], a, 0) > 0
    \/ /\ p \in DOMAIN dir.subdirs
       /\ Get(dir.subdirs[p], a, 0) > 0

\* C22: for every report the HollowsHunter scanner yields exactly one
\* finding per process and anomaly counter that is not zero (none for a
\* counter that is zero, never two for one process and counter), each with
\* the severity and the MITRE id of the table.
C22_OneFindingPerCounter ==
    (parsed # <<>> /\ parsed[1].call = "hollows_hunter.parse_output") =>
        LET findings == parsed[1].value IN
        /\ parsed[1].raised = <<>>
        /\ \A p \in Pids, k \in DOMAIN ANOMALY_SEVERITY :
              LET row == ANOMALY_SEVERITY[k]
                  found == {j \in DOMAIN findings :
                                /\ findings[j].pid = p
                                /\ findings[j].anomaly_type = row.anomaly_type}
              IN  /\ Cardinality(found) =
                        IF NonZero(report_dir, p, row.anomaly_type) THEN 1
                                                                    ELSE 0
                  /\ \A j \in found :
                        /\ findings[j].severity = row.severity
                        /\ findings[j].mitre_attack = row.mitre

----------------------------------------------------------------------------
(* ToolManager.bootstrap_all, tool_manager.py:312-332, over a registry of   *)
(* several tools.  Each tool has its own directory under tools_dir.         *)

\* tool_manager.py:16-105: the order of the entries of the registry
RegistryOrder == <<"hollows_hunter", "pe_sieve", "clamav">>

\* one download_tool call ends: by a return or by an exception, with the
\* entry and the files of the tool as the call leaves them
DownloadEnd(raised, v, tool, fs) ==
    [raised |-> raised, value |-> v, tool |-> tool, files |-> fs]

\* tool_manager.py:231-310: a whole download_tool call for a registered
\* entry, given what the environment answers: whether dest_dir could be
\* made, the answer about the latest release, the answer with the asset,
\* and where the executable was placed
download_tool(tool, fs, made, release, asset, placed) ==
    IF tool.install_method # "github_release"
    THEN DownloadEnd(<<>>, Some(FALSE), tool, fs)
    ELSE IF tool.github_repo = <<>>
    THEN DownloadEnd(<<>>, Some(FALSE), tool, fs)
    ELSE IF ~made
    THEN DownloadEnd(<<"OSError">>, None, tool, fs)
    ELSE IF release = "http_error"
    THEN DownloadEnd(<<>>, Some(FALSE), tool, fs)
    ELSE IF release = "bad_json"
    THEN DownloadEnd(<<"JSONDecodeError">>, None, tool, fs)
    ELSE IF release = "no_asset"
    THEN DownloadEnd(<<>>, Some(FALSE), tool, fs)
    ELSE IF asset = "http_error"
    THEN DownloadEnd(<<>>, Some(FALSE), tool, fs)
    ELSE IF asset = "write_error"
    THEN DownloadEnd(<<"OSError">>, None, tool, fs)
    ELSE IF asset = "bad_zip"
    THEN DownloadEnd(<<"BadZipFile">>, None, tool, fs)
    ELSE LET checked == check_tool(tool, fs \cup placed)
         IN  DownloadEnd(<<>>, Some(checked.installed), checked,
                         fs \cup placed)

\* what the environment can answer to a download_tool call for tool
DownloadAnswers(tool) ==
    {a \in [made : BOOLEAN,
            release : {"http_error", "bad_json", "no_asset", "asset"},
            asset : {"http_error", "write_error", "bad_zip", "written"},
            placed : {{}, {"direct"}, {"nested"}}] :
        /\ a.asset = "bad_zip" => IsZip(tool)
        /\ a.placed = {"nested"} => IsZip(tool)
        /\ a.asset # "written" => a.placed = {}}

\* a ToolManager with the registry of the default tools, built without
\* overrides; each tool's executable is under its directory or is not
InitBoot ==
    /\ pipeline_config \in {c \in HistPipelineConfigs :
                              /\ ~c.stop_on_failure
                              /\ c.steps[1].tool_name = "yara_x"}
    /\ ppc = "call"
    /\ step = 1
    /\ presult = None
    /\ _results = <<>>
    /\ rpc = "idle"
    /\ result = None
    /\ cmd = None
    /\ children = <<>>
    /\ now = 0
    /\ available = None
    /\ wait_outcome = "none"
    /\ parse_call = "none"
    /\ output_dirs = {}
    /\ HistInit
    /\ DirInit
    /\ ParseInit
    /\ config = [path |-> <<>>, expected_hash |-> <<>>]
    /\ _tools = [n \in {d.name : d \in DEFAULT_TOOLS} |->
                    ToolInfo(CHOOSE d \in DEFAULT_TOOLS : d.name = n, config)]
    /\ files = {}
    /\ outcome = <<>>
    /\ download = NoDownload
    /\ \E tf \in [{d.name : d \in DEFAULT_TOOLS} -> {{}, {"direct"}}] :
          boot = [NoBoot EXCEPT !.tool_files = tf]

\* what a step of bootstrap_all leaves alone
boot_frame == <<scan_vars, hist_vars, dir_vars, parse_vars, config, files,
                outcome, download>>

\* tool_manager.py:312-314: bootstrap_all is called
BootstrapCall ==
    /\ boot.pc = "idle"
    /\ \E skip_existing \in BOOLEAN :
          boot' = [boot EXCEPT !.pc = "loop", !.skip_existing = skip_existing,
                               !.next = 1, !.results = <<>>,
                               !.downloads = <<>>, !.raised = <<>>]
    /\ UNCHANGED _tools
    /\ UNCHANGED boot_frame

\* tool_manager.py:315-330: one pass of the loop: the tool is checked and
\* skipped when skip_existing is set and it is installed; a release tool is
\* downloaded, and an exception of download_tool leaves bootstrap_all; any
\* other tool gets False
BootstrapTool ==
    /\ boot.pc = "loop"
    /\ boot.next <= Len(RegistryOrder)
    /\ LET name == RegistryOrder[boot.next]
           fs == boot.tool_files[name]
           tool == IF boot.skip_existing THEN check_tool(_tools[name], fs)
                                         ELSE _tools[name]
       IN  IF boot.skip_existing /\ tool.installed
           THEN /\ boot' = [boot EXCEPT !.results = (name :> TRUE) @@ @,
                                        !.next = @ + 1]
                /\ _tools' = [_tools EXCEPT ![name] = tool]
           ELSE IF tool.install_method = "github_release"
                   /\ tool.github_repo # <<>>
           THEN \E a \in DownloadAnswers(tool) :
                   LET d == download_tool(tool, fs, a.made, a.release,
                                          a.asset, a.placed)
                       called == Append(boot.downloads,
                                        [tool_name |-> name,
                                         on_disk |-> fs # {}])
                   IN  /\ _tools' = [_tools EXCEPT ![name] = d.tool]
                       /\ IF d.raised # <<>>
                          THEN boot' = [boot EXCEPT !.pc = "raised",
                                                    !.raised = d.raised,
                                                    !.downloads = called]
                          ELSE boot' = [boot EXCEPT
                                          !.results = (name :> d.value[1]) @@ @,
                                          !.next = @ + 1,
                                          !.downloads = called,
                                          !.tool_files[name] = d.files]
           ELSE /\ boot' = [boot EXCEPT !.results = (name :> FALSE) @@ @,
                                        !.next = @ + 1]
                /\ _tools' = [_tools EXCEPT ![name] = tool]
    /\ UNCHANGED boot_frame

\* tool_manager.py:332: return results
BootstrapReturn ==
    /\ boot.pc = "loop"
    /\ boot.next > Len(RegistryOrder)
    /\ boot' = [boot EXCEPT !.pc = "returned"]
    /\ UNCHANGED _tools
    /\ UNCHANGED boot_frame

NextBoot ==
    \/ BootstrapCall
    \/ BootstrapTool
    \/ BootstrapReturn

SpecBoot == InitBoot /\ [][NextBoot]_vars

\* C21: bootstrap_all always returns a map with one boolean for every
\* registered tool (a failing download of one tool never keeps the tools
\* after it from being processed), and with skip_existing no download is
\* attempted for a tool that is already installed.
C21_BootstrapAll ==
    /\ boot.pc \in {"returned", "raised"} =>
          /\ boot.pc = "returned"
          /\ DOMAIN boot.results = DOMAIN _tools
          /\ \A n \in DOMAIN boot.results : boot.results[n] \in BOOLEAN
    /\ boot.skip_existing =>
          \A k \in DOMAIN boot.downloads : ~boot.downloads[k].on_disk

====
